---------------------------- MODULE Spec2Model ----------------------------
(***************************************************************************)
(* Model of the COSEBI covariance projection (onecov/cov_cosebis.py):      *)
(* class CovCOSEBI - construction of the integration limits, calc_E_mode,  *)
(* the Gaussian assembler and the 4-point (non-Gaussian / SSC) projection. *)
(*                                                                         *)
(* Numbers.  The program computes in floating point.  Here every number is *)
(* an exact rational [n |-> numerator, d |-> denominator > 0] in lowest    *)
(* terms, or one of the three non-finite floats: NaN, PosInf and NegInf.    *)
(* Rounding is not modelled: FloatEq is applied to values the program      *)
(* copies or computes by the same operations.  The irrational              *)
(* prefactors 1/(2 pi) and 1/(4 pi^2) multiply every entry of a tensor     *)
(* alike, so tensors are held in units of their prefactor; survey areas    *)
(* are held in units of deg2torad2 and pair counts in units of             *)
(* arcmin2torad2^2.                                                        *)
(***************************************************************************)
EXTENDS Integers, Sequences, FiniteSets, TLC

(***************************************************************************)
(* Bounds of the model.                                                    *)
(***************************************************************************)
\* longest exhaustively enumerated W_n table
SmallLen == 5
\* length of the long oscillating W_n tables
MaxGridLen == 85

(***************************************************************************)
(* Program constants.                                                      *)
(***************************************************************************)
\* the stride of the slice [::20] that subsamples the minima
MinimaStride == 20

(***************************************************************************)
(* Rational arithmetic with the non-finite floats.                         *)
(***************************************************************************)
NaN == [n |-> 0, d |-> 0]
PosInf == [n |-> 1, d |-> 0]
NegInf == [n |-> -1, d |-> 0]

Abs(x) == IF x < 0 THEN -x ELSE x

RECURSIVE Gcd(_, _)
Gcd(a, b) == IF b = 0 THEN a ELSE Gcd(b, a % b)

Rat(n, d) ==
    LET s == IF d < 0 THEN -1 ELSE 1
        g == Gcd(Abs(n), Abs(d))
    IN  [n |-> (s * n) \div g, d |-> (s * d) \div g]

R(k) == [n |-> k, d |-> 1]

\* np.isfinite
IsFinite(x) == x.d # 0

\* the sign of a float: 0 for zero and for nan
Sign(x) == IF x.n > 0 THEN 1 ELSE IF x.n < 0 THEN -1 ELSE 0

\* the infinity of the given sign; nan for the sign 0
Inf(s) == IF s > 0 THEN PosInf ELSE IF s < 0 THEN NegInf ELSE NaN

\* float addition: nan + x and inf + (-inf) are nan, inf + x is inf
RAdd(x, y) ==
    IF IsFinite(x) /\ IsFinite(y) THEN Rat(x.n * y.d + y.n * x.d, x.d * y.d)
    ELSE IF x = NaN \/ y = NaN THEN NaN
    ELSE IF IsFinite(y) THEN x
    ELSE IF IsFinite(x) THEN y
    ELSE IF x = y THEN x
    ELSE NaN

\* float multiplication: nan * x and inf * 0 are nan, inf * x is a signed inf
RMul(x, y) ==
    IF IsFinite(x) /\ IsFinite(y) THEN Rat(x.n * y.n, x.d * y.d)
    ELSE Inf(Sign(x) * Sign(y))

\* float division of numpy (a warning and no exception): 0/0 and inf/inf are
\* nan, x/0 is a signed inf, x/inf is 0
RDiv(x, y) ==
    IF x = NaN \/ y = NaN THEN NaN
    ELSE IF ~IsFinite(y) THEN (IF IsFinite(x) THEN R(0) ELSE NaN)
    ELSE IF y.n = 0 THEN Inf(Sign(x))
    ELSE IF ~IsFinite(x) THEN Inf(Sign(x) * Sign(y))
    ELSE Rat(x.n * y.d, x.d * y.n)

\* numpy's == on floats: nan equals nothing, itself included; an infinity
\* equals the infinity of the same sign
FloatEq(x, y) == x # NaN /\ y # NaN /\ x = y

(***************************************************************************)
(* Sequence helpers.                                                       *)
(***************************************************************************)
Last(s) == s[Len(s)]

StrictlyIncreasing(s) == \A i \in 1..(Len(s) - 1) : s[i] < s[i + 1]

(***************************************************************************)
(* KernelIntervalBuilder: CovCOSEBI.__init__, the loop over the modes.     *)
(***************************************************************************)
\* mutant: the comparison is np.less_equal
ArgRelMinLessEqual(kernel) ==
    LET IsMin(i) == /\ i > 1
                    /\ i < Len(kernel)
                    /\ kernel[i] <= kernel[i - 1]
                    /\ kernel[i] <= kernel[i + 1]
    IN  SelectSeq([i \in 1..Len(kernel) |-> i], IsMin)

\* scipy.signal.argrelextrema(kernel, np.less): the positions strictly below
\* both neighbours; with mode='clip' an end point is compared with itself
\* and is never an extremum.  Positions are 1-based here.
ArgRelMin(kernel) ==
    LET IsMin(i) == /\ i > 1
                    /\ i < Len(kernel)
                    /\ kernel[i] < kernel[i - 1]
                    /\ kernel[i] < kernel[i + 1]
    IN  SelectSeq([i \in 1..Len(kernel) |-> i], IsMin)

\* the slice s[::step]: the elements at 0-based positions 0, step, 2 step, ...
SliceStep(s, step) ==
    [j \in 1..((Len(s) + step - 1) \div step) |-> s[(j - 1) * step + 1]]

\* mutant: the last boundary is left at the zero np.zeros put there
EllLimitsAtModeNoLast(ells, kernel) ==
    LET minima == ArgRelMin(kernel)
        limits_at_mode == SliceStep([j \in 1..Len(minima) |-> ells[minima[j]]],
                                    MinimaStride)
    IN  <<ells[1]>> \o limits_at_mode \o <<0>>

\* mutant: the slice keeps the minima 20, 40, ... and drops the first one
EllLimitsAtModeSkipFirst(ells, kernel) ==
    LET minima == ArgRelMin(kernel)
        at == [j \in 1..Len(minima) |-> ells[minima[j]]]
        limits_at_mode ==
            [j \in 1..(Len(at) \div MinimaStride) |-> at[j * MinimaStride]]
    IN  <<ells[1]>> \o limits_at_mode \o <<Last(ells)>>

\* one pass of the loop body: limits_at_mode_append
EllLimitsAtMode(ells, kernel) ==
    LET minima == ArgRelMin(kernel)
        limits_at_mode == SliceStep([j \in 1..Len(minima) |-> ells[minima[j]]],
                                    MinimaStride)
    IN  <<ells[1]>> \o limits_at_mode \o <<Last(ells)>>

(***************************************************************************)
(* The tabulated W_n inputs of the construction runs.                      *)
(***************************************************************************)
\* a strictly increasing multipole grid: evenly spaced, or with growing gaps
GridOf(kind, len) ==
    [i \in 1..len |-> IF kind = "lin" THEN 1 + i ELSE 1 + (i * (i + 1)) \div 2]

GridKinds == {"lin", "grow"}

\* an oscillating table: it alternates 0/1 up to position flatFrom - 1 and is
\* constant from there on, so flatFrom selects the number of minima
Zigzag(len, phase, flatFrom) ==
    [i \in 1..len |-> IF i >= flatFrom THEN 1
                      ELSE IF (i + phase) % 2 = 0 THEN 0 ELSE 1]

\* every table of the given length over a three-valued range
SmallKernels(len) == [1..len -> {0, 1, 2}]

LongKernels == {Zigzag(MaxGridLen, ph, ff) : ph \in {0, 1}, ff \in 1..(MaxGridLen + 1)}

\* read_in_tables['COSEBIs'] with the number of modes asked for
TabulatedInputs ==
    UNION { { [En_modes |-> 1, wn_ells |-> GridOf(g, len), wn_kernels |-> <<k>>]
                : k \in SmallKernels(len), g \in GridKinds }
            : len \in 2..SmallLen }
    \cup
    UNION { { [En_modes |-> 2, wn_ells |-> GridOf("grow", len), wn_kernels |-> <<k1, k2>>]
                : k1 \in [1..len -> {0, 1}], k2 \in {Zigzag(len, 0, len + 1), Zigzag(len, 1, len)} }
            : len \in 2..SmallLen }
    \cup
    { [En_modes |-> 1, wn_ells |-> GridOf(g, MaxGridLen), wn_kernels |-> <<k>>]
        : k \in LongKernels, g \in GridKinds }

VARIABLES
    pc,          \* position of the run
    tab,         \* the tabulated W_n inputs: En_modes, wn_ells, wn_kernels
    ell_limits,  \* self.ell_limits, one boundary sequence per finished mode
    cfg,         \* cov_dict, the observables, the dimensions, the survey parameters
    loop,        \* the loop counters of the running projection
    levin,       \* self.levin_int: the integrand it holds
    buf,         \* the locals of the running projection
    out,         \* the tensors produced so far
    call         \* the last integrate call made on the engine

vars == <<pc, tab, ell_limits, cfg, loop, levin, buf, out, call>>

None == [kind |-> "none"]

(***************************************************************************)
(* Construction run: the limits are built mode by mode.                    *)
(***************************************************************************)
InitLimits ==
    /\ tab \in TabulatedInputs
    /\ ell_limits = <<>>
    /\ pc = "limits"
    /\ cfg = None
    /\ loop = None
    /\ levin = None
    /\ buf = None
    /\ out = None
    /\ call = None

\* one iteration of `for mode in range(self.En_modes)`
BuildLimitsAtMode ==
    /\ pc = "limits"
    /\ Len(ell_limits) < tab.En_modes
    /\ ell_limits' = Append(ell_limits,
                            EllLimitsAtMode(tab.wn_ells,
                                            tab.wn_kernels[Len(ell_limits) + 1]))
    /\ UNCHANGED <<pc, tab, cfg, loop, levin, buf, out, call>>

\* levin.Levin(0, 16, 32, En_acc / np.sqrt(len(self.ell_limits[0][:])), ...):
\* the engine is built with the relative accuracy En_acc / sqrt(radicand)
LevinAccuracy(limits) == [kind |-> "levin", radicand |-> Len(limits[1])]

\* the loop is exhausted: the engine is constructed
LimitsDone ==
    /\ pc = "limits"
    /\ Len(ell_limits) = tab.En_modes
    /\ levin' = LevinAccuracy(ell_limits)
    /\ pc' = "built"
    /\ UNCHANGED <<tab, ell_limits, cfg, loop, buf, out, call>>

NextLimits == BuildLimitsAtMode \/ LimitsDone

SpecLimits == InitLimits /\ [][NextLimits]_vars

\* number of interior local minima of the kernel of a finished mode
NumMinima(md) == Len(ArgRelMin(tab.wn_kernels[md]))

\* C8: every boundary sequence built from a strictly increasing grid is
\* strictly increasing, has at least two boundaries, starts at the first
\* grid value and ends at the last grid value.
C8_IntervalSetInvariant ==
    \A md \in 1..Len(ell_limits) :
        StrictlyIncreasing(tab.wn_ells) =>
            /\ StrictlyIncreasing(ell_limits[md])
            /\ Len(ell_limits[md]) >= 2
            /\ ell_limits[md][1] = tab.wn_ells[1]
            /\ Last(ell_limits[md]) = Last(tab.wn_ells)

\* a finished mode with more than 20 minima: two interior boundaries
C8_Witness ==
    /\ pc = "built"
    /\ StrictlyIncreasing(tab.wn_ells)
    /\ \E md \in 1..Len(ell_limits) :
          /\ NumMinima(md) > MinimaStride
          /\ Len(ell_limits[md]) = 4

\* C9 as stated: fewer than 20 minima give only the two grid end points.
C9_FewMinimaSingleWell ==
    \A md \in 1..Len(ell_limits) :
        NumMinima(md) < MinimaStride =>
            ell_limits[md] = <<tab.wn_ells[1], Last(tab.wn_ells)>>

\* C9 amended: no minimum gives the two end points; 1 to 20 minima give the
\* two end points and, between them, the position of the first minimum.
C9_FewMinimaAmended ==
    \A md \in 1..Len(ell_limits) :
        LET minima == ArgRelMin(tab.wn_kernels[md])
        IN  /\ Len(minima) = 0 =>
                ell_limits[md] = <<tab.wn_ells[1], Last(tab.wn_ells)>>
            /\ (Len(minima) >= 1 /\ Len(minima) <= MinimaStride) =>
                ell_limits[md] =
                    <<tab.wn_ells[1], tab.wn_ells[minima[1]], Last(tab.wn_ells)>>

\* a finished mode with between 1 and 19 minima and one with exactly 20
C9_Witness ==
    /\ pc = "built"
    /\ \E md \in 1..Len(ell_limits) : NumMinima(md) = MinimaStride - 1
    /\ Len(ell_limits[1]) = 3


(***************************************************************************)
(* Bounds of the projection runs.                                          *)
(***************************************************************************)
\* En_modes of the projection runs
NumModes == 2
\* number of samples of the multipole grid of the projection runs
GridLen == 2
\* the ELL-space inputs are drawn from the seeds 1..MaxSeed
MaxSeed == 2

Modes == 1..NumModes

RECURSIVE Prod(_)
Prod(s) == IF s = <<>> THEN 1 ELSE Head(s) * Prod(Tail(s))

RECURSIVE Pow(_, _)
Pow(b, e) == IF e = 0 THEN 1 ELSE b * Pow(b, e - 1)

Max(a, b) == IF a >= b THEN a ELSE b

(***************************************************************************)
(* The tables and the grid of the projection runs.  The program samples    *)
(* the integrands on self.ellrange (100 bins between wn_ells[0] and        *)
(* wn_ells[-1]) and the engine interpolates; the model samples integrand   *)
(* and kernel on the one grid wn_ells.                                     *)
(***************************************************************************)
\* the tabulated value of W_mode at grid position i
Wn(mode, i) == IF i % 2 = 0 THEN 0 - mode ELSE i + 2 * mode - 2

ProjectionTab ==
    [En_modes |-> NumModes,
     wn_ells |-> GridOf("grow", GridLen),
     wn_kernels |-> [md \in Modes |-> [i \in 1..GridLen |-> Wn(md, i)]]]

\* self.ell_limits after construction
BuiltLimits(t) == [md \in 1..t.En_modes |-> EllLimitsAtMode(t.wn_ells, t.wn_kernels[md])]

(***************************************************************************)
(* The six tracer-pair combinations.                                       *)
(***************************************************************************)
Combos == <<"gggg", "gggm", "ggmm", "gmgm", "mmgm", "mmmm">>

NumCombos == Len(Combos)

\* the tracer of each of the four tomographic axes
Letters(c) ==
    CASE c = "gggg" -> <<"g", "g", "g", "g">>
      [] c = "gggm" -> <<"g", "g", "g", "m">>
      [] c = "ggmm" -> <<"g", "g", "m", "m">>
      [] c = "gmgm" -> <<"g", "m", "g", "m">>
      [] c = "mmgm" -> <<"m", "m", "g", "m">>
      [] c = "mmmm" -> <<"m", "m", "m", "m">>

NTomo(letter, d) == IF letter = "g" THEN d.n_tomo_clust ELSE d.n_tomo_lens

\* the trailing axes (sample, sample, tomo x 4) named by the combination
AxesByName(c, d) ==
    <<d.sample_dim, d.sample_dim>> \o [k \in 1..4 |-> NTomo(Letters(c)[k], d)]

\* the condition under which a combination is computed
Enabled(c, d) ==
    CASE c = "gggg" -> d.gg
      [] c = "gggm" -> d.gg /\ d.gm /\ d.cross_terms
      [] c = "ggmm" -> d.gg /\ d.mm /\ d.cross_terms
      [] c = "gmgm" -> d.gm
      [] c = "mmgm" -> d.gm /\ d.mm /\ d.cross_terms
      [] c = "mmmm" -> d.mm

(***************************************************************************)
(* Tensors.  An array holds, for every mode pair, its trailing axes        *)
(* flattened in C order; a disabled term is the Python scalar 0.           *)
(***************************************************************************)
\* np.zeros((En_modes, En_modes) + axes)
Zeros(axes) ==
    [kind |-> "array", axes |-> axes,
     v |-> [m \in Modes |-> [n \in Modes |-> [x \in 1..Prod(axes) |-> R(0)]]]]

\* the Python scalar 0
Scalar0 == [kind |-> "scalar", v |-> R(0)]

\* a + b on equally shaped arrays and scalars
TAdd(a, b) ==
    IF a.kind = "scalar" /\ b.kind = "scalar" THEN [kind |-> "scalar", v |-> RAdd(a.v, b.v)]
    ELSE IF a.kind = "scalar"
         THEN [b EXCEPT !.v = [m \in Modes |-> [n \in Modes |->
                    [x \in 1..Prod(b.axes) |-> RAdd(a.v, b.v[m][n][x])]]]]
    ELSE IF b.kind = "scalar"
         THEN [a EXCEPT !.v = [m \in Modes |-> [n \in Modes |->
                    [x \in 1..Prod(a.axes) |-> RAdd(a.v[m][n][x], b.v)]]]]
    ELSE [a EXCEPT !.v = [m \in Modes |-> [n \in Modes |->
                    [x \in 1..Prod(a.axes) |-> RAdd(a.v[m][n][x], b.v[m][n][x])]]]]

\* the 1-based index along axis k of the C-order flat position x
AxisIndex(x, axes, k) ==
    (((x - 1) \div Prod(SubSeq(axes, k + 1, Len(axes)))) % axes[k]) + 1

(***************************************************************************)
(* The ELL-space collaborator (CovELLSpace): its tensors are generated     *)
(* from the seed of the run.  A tensor of a combination has the axes       *)
(* (ell, ell, sample, sample, tomo x 4) named by the combination.          *)
(***************************************************************************)
TagOf(kind) ==
    CASE kind = "sva" -> 0
      [] kind = "mix" -> 1
      [] kind = "nongauss" -> 2
      [] kind = "ssc" -> 3
      [] kind = "Cell" -> 1

\* a tensor that is unchanged when (ell, ell') are transposed and the two
\* tomographic-bin pairs are exchanged with them; for equal bin counts of
\* the two tracers and one sample bin, where a pair has n_tomo^2 values
SymmetricEllAt(kind, d, l1, l2, x) ==
    LET pairs == d.n_tomo_clust * d.n_tomo_lens
        first == ((x - 1) \div pairs) % pairs
        second == (x - 1) % pairs
    IN  R(l1 * (first + 1) + l2 * (second + 1) + TagOf(kind))

\* entry (l1, l2, x) of the tensor of the given kind; with d.nan the first
\* entry is not finite
EllAt(kind, d, l1, l2, x) ==
    IF d.nan /\ l1 = 1 /\ l2 = 1 /\ x = 1 THEN NaN
    ELSE IF d.sym THEN SymmetricEllAt(kind, d, l1, l2, x)
    ELSE R(((d.seed * (l1 + 2 * l2 + 3 * x) + TagOf(kind)) % 4) - 1)

\* the number of elements of a tensor of the combination
EllSize(c, d) == GridLen * GridLen * Prod(AxesByName(c, d))

(***************************************************************************)
(* The quadrature engine (levin.Levin), from its contract: the integral of *)
(* integrand x kernel(s) over every well of the limits, accumulated.  The  *)
(* integral over one well is the trapezoid sum over the grid in the well.  *)
(***************************************************************************)
GridIndex(ells, v) == CHOOSE i \in 1..Len(ells) : ells[i] = v

RECURSIVE TrapzFrom(_, _, _, _)
TrapzFrom(g, xs, i, j) ==
    IF i >= j THEN R(0)
    ELSE RAdd(RMul(Rat(xs[i + 1] - xs[i], 2), RAdd(g[i], g[i + 1])),
              TrapzFrom(g, xs, i + 1, j))

\* np.trapz(g, xs)
Trapz(g, xs) == TrapzFrom(g, xs, 1, Len(xs))

RECURSIVE OverWells(_, _, _, _)
OverWells(g, ells, limits, w) ==
    IF w >= Len(limits) THEN R(0)
    ELSE RAdd(TrapzFrom(g, ells, GridIndex(ells, limits[w]), GridIndex(ells, limits[w + 1])),
              OverWells(g, ells, limits, w + 1))

\* levin_int.init_integral(ellrange, f, logx, logy): the engine keeps the
\* integrand and the two interpolation flags
InitIntegral(f, logx, logy) == [f |-> f, fresh |-> TRUE, logx |-> logx, logy |-> logy]

\* levin_int.cquad_integrate_single_well(limits, mode)
SingleWell(t, f, limits, mode) ==
    [x \in 1..Len(f[1]) |->
        OverWells([i \in 1..Len(t.wn_ells) |-> RMul(f[i][x], R(t.wn_kernels[mode][i]))],
                  t.wn_ells, limits, 1)]

\* levin_int.cquad_integrate_double_well(limits, m_mode, n_mode)
DoubleWell(t, f, limits, m, n) ==
    [x \in 1..Len(f[1]) |->
        OverWells([i \in 1..Len(t.wn_ells) |->
                      RMul(f[i][x], R(t.wn_kernels[m][i] * t.wn_kernels[n][i]))],
                  t.wn_ells, limits, 1)]

\* whether every sample of the integrand is finite
FiniteIntegrand(f) == \A i \in 1..Len(f) : \A x \in 1..Len(f[i]) : IsFinite(f[i][x])

\* what an integrate call can do: on a finite integrand it returns the
\* value; on a non-finite one its behaviour is undefined - it returns
\* non-finite values or raises
Outcomes(f) == IF FiniteIntegrand(f) THEN {"value"} ELSE {"nonfinite", "raise"}


(***************************************************************************)
(* Survey parameters and the pair-count collaborator (get_dnpair).         *)
(***************************************************************************)
\* self.theta_gg, self.theta_gm, self.theta_mm: the angular grid
Theta == <<1, 2, 4>>

\* the splines self.Tn_p[mode], self.Tn_m[mode] evaluated at Theta[t]
TnP(mode, t) == mode + t - 1
TnM(mode, t) == mode - t

\* self.dnpair_xx[t, i, j]: the pair-count density, positive
Dnpair(t, i, j) == t + i * j

\* survey_params_dict['ellipticity_dispersion'][j]
Sigma(j) == R(j)

(***************************************************************************)
(* The Gaussian assembler: CovCOSEBI.__covCOSEBI_split_gaussian.           *)
(***************************************************************************)
\* flat_length of each branch
GaussFlatLength(c, d) ==
    LET s == d.sample_dim
        nc == d.n_tomo_clust
        nl == d.n_tomo_lens
    IN  CASE c = "gggg" -> s * s * Pow(nc, 4)
          [] c = "gggm" -> s * s * nl * Pow(nc, 3)
          [] c = "ggmm" -> s * s * Pow(nl, 2) * Pow(nc, 2)
          [] c = "gmgm" -> s * s * Pow(nl, 2) * Pow(nl, 2)
          [] c = "mmgm" -> s * s * Pow(nl, 3) * nc
          [] c = "mmmm" -> s * s * Pow(nl, 4)

\* the trailing axes of the tensors np.zeros allocates in each branch
GaussAxes(c, d) ==
    LET s == d.sample_dim
        nc == d.n_tomo_clust
        nl == d.n_tomo_lens
    IN  CASE c = "gggg" -> <<s, s, nc, nc, nc, nc>>
          [] c = "gggm" -> <<s, s, nc, nc, nc, nl>>
          [] c = "ggmm" -> <<s, s, nc, nc, nl, nl>>
          [] c = "gmgm" -> <<s, s, nc, nl, nc, nl>>
          [] c = "mmgm" -> <<s, s, nl, nl, nc, nl>>
          [] c = "mmmm" -> <<s, s, nl, nl, nl, nl>>

\* mutant: the footprint of the first tracer pair of the combination
GaussAreaFirst(c, d) ==
    CASE c = "gggg" -> d.area_clust
      [] c = "gggm" -> d.area_clust
      [] c = "ggmm" -> d.area_clust
      [] c = "gmgm" -> d.area_ggl
      [] c = "mmgm" -> d.area_lens
      [] c = "mmmm" -> d.area_lens

\* the footprint dividing sva and mix, in units of deg2torad2
GaussArea(c, d) ==
    CASE c = "gggg" -> d.area_clust
      [] c = "gggm" -> Max(d.area_clust, d.area_ggl)
      [] c = "ggmm" -> Max(d.area_clust, d.area_lens)
      [] c = "gmgm" -> d.area_ggl
      [] c = "mmgm" -> Max(d.area_ggl, d.area_lens)
      [] c = "mmmm" -> d.area_lens

\* the branches that project a mix term / a shot-noise term
HasMix(c) == c # "ggmm"
HasSn(c) == c \in {"gggg", "gmgm", "mmmm"}

\* mutant: the mix statement loads the sva tensor again
DiagIntegrandSvaOnly(kind, t, d, flat_length) ==
    [i \in 1..Len(t.wn_ells) |->
        [x \in 1..flat_length |-> RMul(EllAt("sva", d, i, i, x), R(t.wn_ells[i]))]]

\* np.moveaxis(np.diagonal(gaussELL_flat) * ellrange, 0, -1)
DiagIntegrand(kind, t, d, flat_length) ==
    [i \in 1..Len(t.wn_ells) |->
        [x \in 1..flat_length |-> RMul(EllAt(kind, d, i, i, x), R(t.wn_ells[i]))]]

\* 1/2/pi/(area/deg2torad2) * result, in units of 1/(2 pi)
GaussEntry(area, result) ==
    [x \in 1..Len(result) |-> RMul(RDiv(R(1), R(area)), result[x])]

\* mutant: the mirror is taken before the entry is written
StoreMirroredStale(T, m, n, val) ==
    [T EXCEPT !.v[n][m] = T.v[m][n], !.v[m][n] = val]

\* T[m, n] = val ; T[n, m] = T[m, n]
StoreMirrored(T, m, n, val) ==
    [T EXCEPT !.v[m][n] = val, !.v[n][m] = val]

\* Tpm_product at Theta[t]
TpmProduct(m, n, t) == TnP(m, t) * TnP(n, t) + TnM(m, t) * TnM(n, t)

\* aux_xx_sn[i, j] = np.trapz(Tpm_product theta^2 / dnpair, theta) / arcmin2torad2^2
SnAux(m, n, i, j) ==
    Trapz([t \in 1..Len(Theta) |->
              Rat(TpmProduct(m, n, t) * Theta[t] * Theta[t], Dnpair(t, i, j))],
          Theta)

Delta(a, b) == IF a = b THEN 1 ELSE 0

\* mutant: gmgm masked like the same-tracer combinations
SnValueAllPairs(c, axes, m, n) ==
    [x \in 1..Prod(axes) |->
        LET i == AxisIndex(x, axes, 3)
            j == AxisIndex(x, axes, 4)
            k == AxisIndex(x, axes, 5)
            l == AxisIndex(x, axes, 6)
            pairs == Delta(i, k) * Delta(j, l) + Delta(i, l) * Delta(j, k)
        IN  CASE c = "gggg" -> RDiv(RMul(R(pairs), SnAux(m, n, i, j)), R(4))
              [] c = "gmgm" ->
                    RDiv(RMul(R(pairs),
                              RMul(RMul(Sigma(j), Sigma(j)), SnAux(m, n, i, j))), R(2))
              [] c = "mmmm" ->
                    RDiv(RMul(R(pairs),
                              RMul(RMul(RMul(Sigma(i), Sigma(i)), RMul(Sigma(j), Sigma(j))),
                                   SnAux(m, n, i, j))), R(2))]

\* the shot-noise block of a mode pair, broadcast over the sample axes
SnValue(c, axes, m, n) ==
    [x \in 1..Prod(axes) |->
        LET i == AxisIndex(x, axes, 3)
            j == AxisIndex(x, axes, 4)
            k == AxisIndex(x, axes, 5)
            l == AxisIndex(x, axes, 6)
            pairs == Delta(i, k) * Delta(j, l) + Delta(i, l) * Delta(j, k)
        IN  CASE c = "gggg" -> RDiv(RMul(R(pairs), SnAux(m, n, i, j)), R(4))
              [] c = "gmgm" ->
                    RDiv(RMul(R(Delta(i, k) * Delta(j, l)),
                              RMul(RMul(Sigma(j), Sigma(j)), SnAux(m, n, i, j))), R(2))
              [] c = "mmmm" ->
                    RDiv(RMul(R(pairs),
                              RMul(RMul(RMul(Sigma(i), Sigma(i)), RMul(Sigma(j), Sigma(j))),
                                   SnAux(m, n, i, j))), R(2))]

\* where each branch writes its shot-noise block
SnStore(c, T, m, n, val) ==
    CASE c = "gggg" -> [T EXCEPT !.v[n][m] = val]
      [] c = "gmgm" -> [T EXCEPT !.v[n][m] = val]
      [] c = "mmmm" -> [T EXCEPT !.v[m][n] = val, !.v[n][m] = val]

(***************************************************************************)
(* The configurations of the projection runs.                              *)
(***************************************************************************)
Observables ==
    {[gg |-> a, gm |-> b, mm |-> c, cross_terms |-> x] : a, b, c, x \in BOOLEAN}

\* sample_dim, n_tomo_clust, n_tomo_lens
Dimensions == {<<1, 1, 1>>, <<1, 2, 2>>, <<1, 1, 2>>, <<2, 1, 1>>}

\* survey_area_clust, survey_area_ggl, survey_area_lens in units of deg2torad2
Areas == {<<2, 3, 1>>, <<3, 2, 4>>}

Config(o, dims, ar, sd, nan, cov) ==
    [gg |-> o.gg, gm |-> o.gm, mm |-> o.mm, cross_terms |-> o.cross_terms,
     sample_dim |-> dims[1], n_tomo_clust |-> dims[2], n_tomo_lens |-> dims[3],
     area_clust |-> ar[1], area_ggl |-> ar[2], area_lens |-> ar[3],
     seed |-> sd, nan |-> nan, sym |-> FALSE,
     gauss |-> cov.gauss, split_gauss |-> cov.split_gauss,
     nongauss |-> cov.nongauss, ssc |-> cov.ssc]

\* finite inputs of every shape, and non-finite inputs of the smallest shape
InputConfigs(covs) ==
    {Config(o, dims, ar, sd, FALSE, cov) :
        o \in Observables, dims \in Dimensions, ar \in Areas, sd \in 1..MaxSeed, cov \in covs}
    \cup
    {Config(o, <<1, 1, 1>>, <<2, 3, 1>>, 1, TRUE, cov) : o \in Observables, cov \in covs}

\* inputs whose 4-point tensors have the symmetry of a covariance
SymmetricConfigs(covs) ==
    {[Config(o, <<1, 2, 2>>, <<2, 3, 1>>, 1, FALSE, cov) EXCEPT !.sym = TRUE] :
        o \in Observables, cov \in covs}

\* the loop counters; tcomb is the progress counter of the running branch and
\* shown the value of tcomb in the last progress line printed
NoLoop == [combo |-> 0, m |-> 0, n |-> 0, i_ell |-> 0, tcomb |-> 0, shown |-> 0]

\* the integrate calls made so far in the run, oldest first
CallLog(c) == IF c.kind = "none" THEN <<>> ELSE c.log

\* the engine as levin.Levin(...) and init_w_ell leave it in the constructor:
\* no integrand loaded by init_integral yet
StaleEngine == [f |-> <<>>, fresh |-> FALSE, logx |-> TRUE, logy |-> TRUE]

NoTensors == [k \in 1..NumCombos |-> None]

\* nothing computed yet: the Gaussian terms, the value returned by
\* covCOSEBI_gaussian, the list gauss, the 4-point tensors, the E modes, and
\* what an earlier call of calc_E_mode returned and read
NoOutputs ==
    [sva |-> NoTensors, mix |-> NoTensors, sn |-> NoTensors,
     ret |-> <<>>, gauss |-> <<>>, four |-> NoTensors, E |-> <<>>, prev |-> <<>>]

NoLocals == [connected |-> FALSE, flat_length |-> 0, original_shape |-> <<>>,
             inner_integral |-> <<>>, save_entry |-> <<>>]

(***************************************************************************)
(* A run of the Gaussian part of calc_covCOSEBI.                           *)
(***************************************************************************)
GaussCovs ==
    {[gauss |-> g, split_gauss |-> sp, nongauss |-> FALSE, ssc |-> FALSE] :
        g \in BOOLEAN, sp \in BOOLEAN}

\* the constructor before `if self.cov_dict['gauss']: ... self.calc_E_mode()`:
\* with gauss the E modes are computed first, and the Gaussian part starts
\* from the engine and the calls that calc_E_mode leaves behind
InitGauss ==
    /\ tab = ProjectionTab
    /\ ell_limits = BuiltLimits(ProjectionTab)
    /\ cfg \in InputConfigs(GaussCovs)
    /\ loop = NoLoop
    /\ levin = StaleEngine
    /\ buf = NoLocals
    /\ out = NoOutputs
    /\ call = None
    /\ pc = IF cfg.gauss THEN "e_start" ELSE "g_start"

\* the next position after the body of a mode pair
\* mutant: the inner loop starts at mode 0 for every m
AfterPairFull(prefix, lp) ==
    LET shown == [lp EXCEPT !.shown = lp.tcomb, !.tcomb = lp.tcomb + 1]
    IN  IF lp.n < NumModes THEN <<prefix \o "_pair", [shown EXCEPT !.n = lp.n + 1]>>
        ELSE IF lp.m < NumModes
        THEN <<prefix \o "_pair", [shown EXCEPT !.m = lp.m + 1, !.n = 1]>>
        ELSE IF lp.combo < NumCombos
        THEN <<prefix \o "_enter", [NoLoop EXCEPT !.combo = lp.combo + 1,
                                                   !.shown = lp.tcomb]>>
        ELSE <<prefix \o "_return", [NoLoop EXCEPT !.shown = lp.tcomb]>>

\* the progress line and `tcomb += 1` that end the body of a pair, and the
\* next (m_mode, n_mode) of the two loops
AfterPair(prefix, lp) ==
    LET shown == [lp EXCEPT !.shown = lp.tcomb, !.tcomb = lp.tcomb + 1]
    IN  IF lp.n < NumModes THEN <<prefix \o "_pair", [shown EXCEPT !.n = lp.n + 1]>>
        ELSE IF lp.m < NumModes
        THEN <<prefix \o "_pair", [shown EXCEPT !.m = lp.m + 1, !.n = lp.m + 1]>>
        ELSE IF lp.combo < NumCombos
        THEN <<prefix \o "_enter", [NoLoop EXCEPT !.combo = lp.combo + 1,
                                                   !.shown = lp.tcomb]>>
        ELSE <<prefix \o "_return", [NoLoop EXCEPT !.shown = lp.tcomb]>>

\* the next position after a branch that is not taken
AfterCombo(prefix, lp) ==
    IF lp.combo < NumCombos
    THEN <<prefix \o "_enter", [NoLoop EXCEPT !.combo = lp.combo + 1,
                                               !.shown = lp.shown]>>
    ELSE <<prefix \o "_return", [NoLoop EXCEPT !.shown = lp.shown]>>

\* what the call self.covELL_gaussian(...) can do: the collaborator returns
\* its tensors, or an exception leaves it
CovEllOutcomes == {"value", "raise"}

\* covCOSEBI_gaussian / __covCOSEBI_split_gaussian: the gauss switch, then
\* save_entry, split_gauss = True, the call of the ELL-space collaborator
\* and split_gauss = save_entry
GaussStart ==
    /\ pc = "g_start"
    /\ IF ~cfg.gauss
       THEN /\ out' = [out EXCEPT !.ret = [k \in 1..9 |-> Scalar0]]
            /\ pc' = "g_assemble"
            /\ UNCHANGED <<loop, cfg, buf>>
       ELSE /\ out' = out
            /\ buf' = [buf EXCEPT !.save_entry = <<cfg.split_gauss>>]
            /\ \E oc \in CovEllOutcomes :
                  IF oc = "raise"
                  THEN /\ cfg' = [cfg EXCEPT !.split_gauss = TRUE]
                       /\ pc' = "g_raised"
                       /\ loop' = loop
                  ELSE /\ cfg' = cfg
                       /\ pc' = "g_enter"
                       /\ loop' = [NoLoop EXCEPT !.combo = 1, !.shown = loop.shown]
    /\ UNCHANGED <<tab, ell_limits, levin, call>>

\* `if <enabled>:` of one branch: allocate and reshape, or set the scalars 0
GaussEnter ==
    /\ pc = "g_enter"
    /\ LET k == loop.combo
           c == Combos[k]
           axes == GaussAxes(c, cfg)
           flat_length == GaussFlatLength(c, cfg)
       IN  IF Enabled(c, cfg)
           THEN /\ out' = [out EXCEPT
                            !.sva[k] = Zeros(axes),
                            !.mix[k] = IF HasMix(c) THEN Zeros(axes) ELSE Scalar0,
                            !.sn[k] = IF HasSn(c) THEN Zeros(axes) ELSE Scalar0]
                /\ buf' = [buf EXCEPT !.flat_length = flat_length, !.original_shape = axes]
                /\ IF EllSize(c, cfg) = GridLen * GridLen * flat_length
                   THEN /\ pc' = "g_pair"
                        /\ loop' = [loop EXCEPT !.m = 1, !.n = 1, !.tcomb = 1]
                   ELSE /\ pc' = "g_raised"
                        /\ loop' = loop
           ELSE /\ out' = [out EXCEPT !.sva[k] = Scalar0, !.mix[k] = Scalar0,
                                      !.sn[k] = Scalar0]
                /\ buf' = buf
                /\ pc' = AfterCombo("g", loop)[1]
                /\ loop' = AfterCombo("g", loop)[2]
    /\ UNCHANGED <<tab, ell_limits, cfg, levin, call>>

\* init_integral with the diagonal of the sva tensor
GaussInitSva ==
    /\ pc = "g_pair"
    /\ levin' = InitIntegral(DiagIntegrand("sva", tab, cfg, buf.flat_length), TRUE, TRUE)
    /\ pc' = "g_int_sva"
    /\ UNCHANGED <<tab, ell_limits, cfg, loop, buf, out, call>>

\* the position after the sva / mix statements of a pair
AfterSva(c, lp) == IF HasMix(c) THEN <<"g_init_mix", lp>>
                   ELSE IF HasSn(c) THEN <<"g_sn", lp>> ELSE AfterPair("g", lp)
AfterMix(c, lp) == IF HasSn(c) THEN <<"g_sn", lp>> ELSE AfterPair("g", lp)

\* the double-well integral of a term, stored at (m, n) and mirrored
GaussIntegrate(term, k, oc) ==
    LET c == Combos[k]
        result == DoubleWell(tab, levin.f, ell_limits[loop.m], loop.m, loop.n)
        entry == GaussEntry(GaussArea(c, cfg), result)
        next == IF term = "sva" THEN AfterSva(c, loop) ELSE AfterMix(c, loop)
    IN  /\ call' = [kind |-> "double", loaded |-> levin.f, fresh |-> levin.fresh,
                    slot |-> <<term, k, loop.m, loop.n, 0>>, arg |-> <<>>,
                    log |-> Append(CallLog(call), <<term, k, loop.m, loop.n, 0>>)]
        /\ levin' = [levin EXCEPT !.fresh = FALSE]
        /\ IF oc = "raise" \/ buf.flat_length # Prod(buf.original_shape)
           THEN /\ pc' = "g_raised"
                /\ UNCHANGED <<out, loop>>
           ELSE /\ out' = IF term = "sva"
                          THEN [out EXCEPT !.sva[k] = StoreMirrored(@, loop.m, loop.n, entry)]
                          ELSE [out EXCEPT !.mix[k] = StoreMirrored(@, loop.m, loop.n, entry)]
                /\ pc' = next[1]
                /\ loop' = next[2]

GaussIntSva ==
    /\ pc = "g_int_sva"
    /\ \E oc \in Outcomes(levin.f) : GaussIntegrate("sva", loop.combo, oc)
    /\ UNCHANGED <<tab, ell_limits, cfg, buf>>

\* init_integral with the diagonal of the mix tensor
GaussInitMix ==
    /\ pc = "g_init_mix"
    /\ levin' = InitIntegral(DiagIntegrand("mix", tab, cfg, buf.flat_length), TRUE, TRUE)
    /\ pc' = "g_int_mix"
    /\ UNCHANGED <<tab, ell_limits, cfg, loop, buf, out, call>>

GaussIntMix ==
    /\ pc = "g_int_mix"
    /\ \E oc \in Outcomes(levin.f) : GaussIntegrate("mix", loop.combo, oc)
    /\ UNCHANGED <<tab, ell_limits, cfg, buf>>

\* the shot-noise block of the pair
GaussShotNoise ==
    /\ pc = "g_sn"
    /\ LET k == loop.combo
           c == Combos[k]
           val == SnValue(c, buf.original_shape, loop.m, loop.n)
       IN  out' = [out EXCEPT !.sn[k] = SnStore(c, @, loop.m, loop.n, val)]
    /\ pc' = AfterPair("g", loop)[1]
    /\ loop' = AfterPair("g", loop)[2]
    /\ UNCHANGED <<tab, ell_limits, cfg, levin, buf, call>>

\* the return of __covCOSEBI_split_gaussian and of covCOSEBI_gaussian:
\* eighteen tensors, or the nine sums sva + mix and shot-noise terms
GaussReturn ==
    /\ pc = "g_return"
    /\ out' = [out EXCEPT !.ret =
                 IF ~cfg.split_gauss
                 THEN [j \in 1..NumCombos |-> TAdd(out.sva[j], out.mix[j])]
                      \o <<out.sn[1], out.sn[4], out.sn[6]>>
                 ELSE [j \in 1..(3 * NumCombos) |->
                         LET k == ((j - 1) \div 3) + 1
                         IN  CASE (j - 1) % 3 = 0 -> out.sva[k]
                               [] (j - 1) % 3 = 1 -> out.mix[k]
                               [] (j - 1) % 3 = 2 -> out.sn[k]]]
    /\ pc' = "g_assemble"
    /\ UNCHANGED <<tab, ell_limits, cfg, loop, levin, buf, call>>

\* calc_covCOSEBI: the list gauss
GaussAssemble ==
    /\ pc = "g_assemble"
    /\ out' = [out EXCEPT !.gauss =
                 IF ~cfg.split_gauss
                 THEN <<TAdd(out.ret[1], out.ret[7]), out.ret[2], out.ret[3],
                        TAdd(out.ret[4], out.ret[8]), out.ret[5],
                        TAdd(out.ret[6], out.ret[9])>>
                 ELSE out.ret]
    /\ pc' = "g_done"
    /\ UNCHANGED <<tab, ell_limits, cfg, loop, levin, buf, call>>



(***************************************************************************)
(* The 4-point projection: CovCOSEBI.__covCOSEBI_4pt_projection, called by *)
(* covCOSEBI_non_gaussian (connected) and covCOSEBI_ssc (not connected).   *)
(***************************************************************************)
\* flat_length of each branch
FourPtFlatLength(c, d) ==
    LET s == d.sample_dim
        nc == d.n_tomo_clust
        nl == d.n_tomo_lens
    IN  CASE c = "gggg" -> s * s * Pow(nc, 4)
          [] c = "gggm" -> s * s * Pow(nc, 3) * nl
          [] c = "ggmm" -> s * s * Pow(nl, 2) * Pow(nc, 2)
          [] c = "gmgm" -> s * Pow(s, Pow(nl, 2)) * Pow(nc, 2)
          [] c = "mmgm" -> s * s * Pow(nl, 3) * nc
          [] c = "mmmm" -> s * s * Pow(nl, 4)

\* the trailing axes of the tensor np.zeros allocates in each branch
FourPtAxes(c, d) ==
    LET s == d.sample_dim
        nc == d.n_tomo_clust
        nl == d.n_tomo_lens
    IN  IF c = "mmmm" THEN <<s, s, nl, nl, nl, nl>> ELSE <<s, s, nc, nc, nc, nc>>

\* the footprint of the connected branch, in units of deg2torad2
FourPtArea(c, d) ==
    CASE c = "gggg" -> d.area_clust
      [] c = "gggm" -> Max(d.area_clust, d.area_ggl)
      [] c = "ggmm" -> Max(d.area_clust, d.area_lens)
      [] c = "gmgm" -> d.area_ggl
      [] c = "mmgm" -> Max(d.area_ggl, d.area_lens)
      [] c = "mmmm" -> d.area_lens

\* the tensor the projection reads: connected or super-sample
FourPtKind(connected) == IF connected THEN "nongauss" ELSE "ssc"

\* nongaussELL_flat[:, i_ell, :] * ellrange[:, None]
InnerIntegrand(kind, t, d, flat_length, i_ell) ==
    [i \in 1..Len(t.wn_ells) |->
        [x \in 1..flat_length |-> RMul(EllAt(kind, d, i, i_ell, x), R(t.wn_ells[i]))]]

\* inner_integral * ellrange[:, None]
OuterIntegrand(t, inner_integral) ==
    [i \in 1..Len(t.wn_ells) |->
        [x \in 1..Len(inner_integral[i]) |-> RMul(inner_integral[i][x], R(t.wn_ells[i]))]]

\* `if connected: T[.., ..] /= area`: the entry each branch divides
FourPtDivide(c, T, m, n, area) ==
    IF c = "gggg"
    THEN [T EXCEPT !.v[n][m] = [x \in 1..Len(@) |-> RDiv(@[x], R(area))]]
    ELSE [T EXCEPT !.v[m][n] = [x \in 1..Len(@) |-> RDiv(@[x], R(area))]]

FourPtCovs ==
    {[gauss |-> FALSE, split_gauss |-> FALSE, nongauss |-> a, ssc |-> a] : a \in BOOLEAN}

\* a call of covCOSEBI_non_gaussian (connected) or of covCOSEBI_ssc
InitFourPt ==
    /\ tab = ProjectionTab
    /\ ell_limits = BuiltLimits(ProjectionTab)
    /\ cfg \in InputConfigs(FourPtCovs) \cup SymmetricConfigs(FourPtCovs)
    /\ loop = NoLoop
    /\ levin = StaleEngine
    /\ \E b \in BOOLEAN : buf = [NoLocals EXCEPT !.connected = b]
    /\ out = NoOutputs
    /\ call = None
    /\ pc = "p_start"

\* covCOSEBI_non_gaussian / covCOSEBI_ssc: the switch of the term
FourPtStart ==
    /\ pc = "p_start"
    /\ IF (buf.connected /\ ~cfg.nongauss) \/ (~buf.connected /\ ~cfg.ssc)
       THEN /\ out' = [out EXCEPT !.ret = [k \in 1..NumCombos |-> Scalar0]]
            /\ pc' = "p_done"
            /\ loop' = loop
       ELSE /\ out' = out
            /\ pc' = "p_enter"
            /\ loop' = [NoLoop EXCEPT !.combo = 1, !.shown = loop.shown]
    /\ UNCHANGED <<tab, ell_limits, cfg, levin, buf, call>>

\* `if <enabled>:` of one branch: allocate and reshape, or set the scalar 0
FourPtEnter ==
    /\ pc = "p_enter"
    /\ LET k == loop.combo
           c == Combos[k]
           axes == FourPtAxes(c, cfg)
           flat_length == FourPtFlatLength(c, cfg)
       IN  IF Enabled(c, cfg)
           THEN /\ out' = [out EXCEPT !.four[k] = Zeros(axes)]
                /\ buf' = [buf EXCEPT !.flat_length = flat_length, !.original_shape = axes]
                /\ IF EllSize(c, cfg) = GridLen * GridLen * flat_length
                   THEN /\ pc' = "p_pair"
                        /\ loop' = [loop EXCEPT !.m = 1, !.n = 1, !.tcomb = 1]
                   ELSE /\ pc' = "p_raised"
                        /\ loop' = loop
           ELSE /\ out' = [out EXCEPT !.four[k] = Scalar0]
                /\ buf' = buf
                /\ pc' = AfterCombo("p", loop)[1]
                /\ loop' = AfterCombo("p", loop)[2]
    /\ UNCHANGED <<tab, ell_limits, cfg, levin, call>>

\* inner_integral = np.zeros((len(ellrange), flat_length))
FourPtPair ==
    /\ pc = "p_pair"
    /\ buf' = [buf EXCEPT !.inner_integral =
                 [i \in 1..GridLen |-> [x \in 1..buf.flat_length |-> R(0)]]]
    /\ loop' = [loop EXCEPT !.i_ell = 1]
    /\ pc' = "p_inner_init"
    /\ UNCHANGED <<tab, ell_limits, cfg, levin, out, call>>

\* init_integral with the slice of the tensor at i_ell
FourPtInnerInit ==
    /\ pc = "p_inner_init"
    /\ levin' = InitIntegral(InnerIntegrand(FourPtKind(buf.connected), tab, cfg,
                                            buf.flat_length, loop.i_ell),
                             TRUE, TRUE)
    /\ pc' = "p_inner_int"
    /\ UNCHANGED <<tab, ell_limits, cfg, loop, buf, out, call>>

\* inner_integral[i_ell, :] = single-well integral with mode n
FourPtInnerInt ==
    /\ pc = "p_inner_int"
    /\ \E oc \in Outcomes(levin.f) :
          /\ call' = [kind |-> "single", loaded |-> levin.f, fresh |-> levin.fresh,
                      slot |-> <<"inner", loop.combo, loop.m, loop.n, loop.i_ell>>,
                      arg |-> <<>>,
                      log |-> Append(CallLog(call),
                                     <<"inner", loop.combo, loop.m, loop.n, loop.i_ell>>)]
          /\ levin' = [levin EXCEPT !.fresh = FALSE]
          /\ IF oc = "raise"
             THEN /\ pc' = "p_raised"
                  /\ UNCHANGED <<buf, loop>>
             ELSE /\ buf' = [buf EXCEPT !.inner_integral[loop.i_ell] =
                               SingleWell(tab, levin.f, ell_limits[loop.n], loop.n)]
                  /\ loop' = [loop EXCEPT !.i_ell = loop.i_ell + 1]
                  /\ pc' = IF loop.i_ell < GridLen THEN "p_inner_init" ELSE "p_outer_init"
    /\ UNCHANGED <<tab, ell_limits, cfg, out>>

\* the last argument of the init_integral call of the outer stage
OuterLogY(c) == c # "mmgm"

\* init_integral with the buffered inner integrals
FourPtOuterInit ==
    /\ pc = "p_outer_init"
    /\ levin' = InitIntegral(OuterIntegrand(tab, buf.inner_integral),
                             TRUE, OuterLogY(Combos[loop.combo]))
    /\ pc' = "p_outer_int"
    /\ UNCHANGED <<tab, ell_limits, cfg, loop, buf, out, call>>

\* the single-well integral with mode m, stored at (m, n), mirrored, and
\* divided by the footprint when connected; in units of 1/(4 pi^2)
FourPtOuterInt ==
    /\ pc = "p_outer_int"
    /\ \E oc \in Outcomes(levin.f) :
          LET k == loop.combo
              c == Combos[k]
              result == SingleWell(tab, levin.f, ell_limits[loop.m], loop.m)
              stored == StoreMirrored(out.four[k], loop.m, loop.n, result)
          IN  /\ call' = [kind |-> "single", loaded |-> levin.f, fresh |-> levin.fresh,
                          slot |-> <<"outer", k, loop.m, loop.n, 0>>,
                          arg |-> buf.inner_integral,
                          log |-> Append(CallLog(call), <<"outer", k, loop.m, loop.n, 0>>)]
              /\ levin' = [levin EXCEPT !.fresh = FALSE]
              /\ IF oc = "raise" \/ buf.flat_length # Prod(buf.original_shape)
                 THEN /\ pc' = "p_raised"
                      /\ UNCHANGED <<out, loop>>
                 ELSE /\ out' = [out EXCEPT !.four[k] =
                                   IF buf.connected
                                   THEN FourPtDivide(c, stored, loop.m, loop.n,
                                                     FourPtArea(c, cfg))
                                   ELSE stored]
                      /\ pc' = AfterPair("p", loop)[1]
                      /\ loop' = AfterPair("p", loop)[2]
    /\ UNCHANGED <<tab, ell_limits, cfg, buf>>

\* the return of __covCOSEBI_4pt_projection: the six tensors
FourPtReturn ==
    /\ pc = "p_return"
    /\ out' = [out EXCEPT !.ret = out.four]
    /\ pc' = "p_done"
    /\ UNCHANGED <<tab, ell_limits, cfg, loop, levin, buf, call>>

NextFourPt ==
    \/ FourPtStart
    \/ FourPtEnter
    \/ FourPtPair
    \/ FourPtInnerInit
    \/ FourPtInnerInt
    \/ FourPtOuterInit
    \/ FourPtOuterInt
    \/ FourPtReturn

SpecFourPt == InitFourPt /\ [][NextFourPt]_vars


(***************************************************************************)
(* The E-mode calculator: CovCOSEBI.calc_E_mode.  Its three blocks are, in *)
(* order: mm (lensing), gm (GGL), gg (clustering).                         *)
(***************************************************************************)
Blocks == <<"mm", "gm", "gg">>

NumBlocks == Len(Blocks)

\* the condition under which a block runs
BlockRuns(b, d) ==
    CASE b = "mm" -> d.mm \/ d.gm
      [] b = "gm" -> d.gm \/ (d.gg /\ d.mm /\ d.cross_terms)
      [] b = "gg" -> d.gg \/ d.gm

\* the two tomographic axes of the block's tracer
BlockTomo(b, d) ==
    CASE b = "mm" -> <<d.n_tomo_lens, d.n_tomo_lens>>
      [] b = "gm" -> <<d.n_tomo_clust, d.n_tomo_lens>>
      [] b = "gg" -> <<d.n_tomo_clust, d.n_tomo_clust>>

\* the axes of E_mode_xx behind the mode axis
EModeAxes(b, d) == <<d.sample_dim>> \o BlockTomo(b, d)

\* flat_length of the block
EModeFlatLength(b, d) ==
    CASE b = "mm" -> d.sample_dim * d.sample_dim * Pow(d.n_tomo_lens, 2)
      [] b = "gm" -> d.sample_dim * d.sample_dim * d.n_tomo_lens * d.n_tomo_clust
      [] b = "gg" -> d.sample_dim * d.sample_dim * Pow(d.n_tomo_clust, 2)

\* self.Cell_xx[0].shape: the spectra of the ELL-space collaborator have the
\* axes (ell, sample, sample, tomo, tomo)
CellShape(b, d) == <<d.sample_dim, d.sample_dim>> \o BlockTomo(b, d)

\* Cell_xx_flat * ellrange[:, None]
CellIntegrand(b, t, d, flat_length) ==
    [i \in 1..Len(t.wn_ells) |->
        [x \in 1..flat_length |->
            RMul(EllAt("Cell", d, i, IF b = "mm" THEN 1 ELSE IF b = "gm" THEN 2 ELSE 3, x),
                 R(t.wn_ells[i]))]]

\* np.zeros((En_modes,) + axes)
EModeZeros(axes) ==
    [kind |-> "array", axes |-> axes,
     v |-> [md \in Modes |-> [x \in 1..Prod(axes) |-> R(0)]]]

EModeCovs == {[gauss |-> TRUE, split_gauss |-> FALSE, nongauss |-> FALSE, ssc |-> FALSE]}

InitEMode ==
    /\ tab = ProjectionTab
    /\ ell_limits = BuiltLimits(ProjectionTab)
    /\ cfg \in InputConfigs(EModeCovs)
    /\ loop = NoLoop
    /\ levin = StaleEngine
    /\ buf = NoLocals
    /\ out = NoOutputs
    /\ call = None
    /\ pc = "e_start"

\* the three np.zeros
EModeStart ==
    /\ pc = "e_start"
    /\ out' = [out EXCEPT !.E = [b \in 1..NumBlocks |-> EModeZeros(EModeAxes(Blocks[b], cfg))]]
    /\ loop' = [NoLoop EXCEPT !.combo = 1, !.shown = loop.shown]
    /\ pc' = "e_enter"
    /\ UNCHANGED <<tab, ell_limits, cfg, levin, buf, call>>

\* the next position after a block; a block that does not run prints nothing
AfterBlock(lp) ==
    IF lp.combo < NumBlocks
    THEN <<"e_enter", [NoLoop EXCEPT !.combo = lp.combo + 1, !.shown = lp.shown]>>
    ELSE <<"e_return", [NoLoop EXCEPT !.shown = lp.shown]>>

\* `if <block runs>:` and the reshape of the spectrum
EModeEnter ==
    /\ pc = "e_enter"
    /\ LET b == Blocks[loop.combo]
           flat_length == EModeFlatLength(b, cfg)
       IN  IF BlockRuns(b, cfg)
           THEN /\ buf' = [buf EXCEPT !.flat_length = flat_length,
                                      !.original_shape = CellShape(b, cfg)]
                /\ IF Prod(CellShape(b, cfg)) = flat_length
                   THEN /\ pc' = "e_init"
                        /\ loop' = [loop EXCEPT !.m = 1]
                   ELSE /\ pc' = "raised"
                        /\ loop' = loop
           ELSE /\ buf' = buf
                /\ pc' = AfterBlock(loop)[1]
                /\ loop' = AfterBlock(loop)[2]
    /\ UNCHANGED <<tab, ell_limits, cfg, levin, out, call>>

\* mutant: the first mode of a block reuses the integrand the engine holds
EModeInitReuse ==
    /\ pc = "e_init"
    /\ levin' = IF loop.m = 1 /\ levin.f # <<>>
                THEN [levin EXCEPT !.fresh = TRUE]
                ELSE InitIntegral(CellIntegrand(Blocks[loop.combo], tab, cfg, buf.flat_length),
                             TRUE, TRUE)
    /\ pc' = "e_int"
    /\ UNCHANGED <<tab, ell_limits, cfg, loop, buf, out, call>>

\* init_integral with the spectrum of the block
EModeInit ==
    /\ pc = "e_init"
    /\ levin' = InitIntegral(CellIntegrand(Blocks[loop.combo], tab, cfg, buf.flat_length),
                             TRUE, TRUE)
    /\ pc' = "e_int"
    /\ UNCHANGED <<tab, ell_limits, cfg, loop, buf, out, call>>

\* E_mode_xx[mode] = 1/2/pi * single-well integral, in units of 1/(2 pi),
\* then the progress line of the mode (tcomb = mode + 1) and `tcomb += 1`;
\* the block of shape (sample, sample, tomo, tomo) fits the slot of shape
\* (sample, tomo, tomo) only when its leading axis has length 1
EModeInt ==
    /\ pc = "e_int"
    /\ \E oc \in Outcomes(levin.f) :
          LET result == SingleWell(tab, levin.f, ell_limits[loop.m], loop.m)
          IN  /\ call' = [kind |-> "single", loaded |-> levin.f, fresh |-> levin.fresh,
                          slot |-> <<"E", loop.combo, loop.m, 0, 0>>, arg |-> <<>>,
                          log |-> Append(CallLog(call), <<"E", loop.combo, loop.m, 0, 0>>)]
              /\ levin' = [levin EXCEPT !.fresh = FALSE]
              /\ IF oc = "raise" \/ buf.original_shape[1] # 1
                 THEN /\ pc' = "raised"
                      /\ UNCHANGED <<out, loop>>
                 ELSE /\ out' = [out EXCEPT !.E[loop.combo].v[loop.m] = result]
                      /\ IF loop.m < NumModes
                         THEN /\ pc' = "e_init"
                              /\ loop' = [loop EXCEPT !.m = loop.m + 1,
                                                      !.shown = loop.m]
                         ELSE /\ pc' = AfterBlock([loop EXCEPT !.shown = loop.m])[1]
                              /\ loop' = AfterBlock([loop EXCEPT !.shown = loop.m])[2]
    /\ UNCHANGED <<tab, ell_limits, cfg, buf>>

\* return E_mode_gg, E_mode_gm, E_mode_mm
EModeReturn ==
    /\ pc = "e_return"
    /\ pc' = "e_done"
    /\ UNCHANGED <<tab, ell_limits, cfg, loop, levin, buf, out, call>>

\* most calls of calc_E_mode made on an object after its first use
MaxRepeats == 2

\* calc_E_mode is called on the object after an earlier call of calc_E_mode,
\* of the Gaussian part or of a 4-point part has returned or has raised: the
\* caller keeps the arrays the earlier call left (a call of calc_E_mode that
\* raised returned none), and the engine holds what the earlier call left in
\* it.  A raise of the first calc_E_mode of a run happens in the constructor
\* and leaves no object; a later one (out.prev # <<>>) leaves the object.
EModeAgain ==
    /\ \/ pc \in {"e_done", "g_done", "p_done", "g_raised", "p_raised"}
       \/ pc = "raised" /\ out.prev # <<>>
    /\ Len(out.prev) < MaxRepeats
    /\ out' = [out EXCEPT !.prev = Append(@, [E |-> IF pc = "raised" THEN <<>> ELSE out.E,
                                              cfg |-> cfg, tab |-> tab,
                                              ell_limits |-> ell_limits,
                                              levin |-> levin, after |-> pc])]
    /\ pc' = "e_start"
    /\ UNCHANGED <<tab, ell_limits, cfg, loop, levin, buf, call>>

\* the constructor returns and calc_covCOSEBI is called on the object: the
\* locals of calc_E_mode are gone, self.E_mode_xx, the engine and its calls
\* stay
CalcCovCOSEBI ==
    /\ pc = "e_done"
    /\ out.prev = <<>>
    /\ pc' = "g_start"
    /\ buf' = NoLocals
    /\ UNCHANGED <<tab, ell_limits, cfg, loop, levin, out, call>>

NextEMode ==
    \/ EModeStart
    \/ EModeEnter
    \/ EModeInit
    \/ EModeInt
    \/ EModeReturn
    \/ EModeAgain

SpecEMode == InitEMode /\ [][NextEMode]_vars

\* construction with calc_E_mode, then the Gaussian part of calc_covCOSEBI
NextGauss ==
    \/ EModeStart
    \/ EModeEnter
    \/ EModeInit
    \/ EModeInt
    \/ EModeReturn
    \/ CalcCovCOSEBI
    \/ GaussStart
    \/ GaussEnter
    \/ GaussInitSva
    \/ GaussIntSva
    \/ GaussInitMix
    \/ GaussIntMix
    \/ GaussShotNoise
    \/ GaussReturn
    \/ GaussAssemble

SpecGauss == InitGauss /\ [][NextGauss]_vars

(***************************************************************************)
(* Every run: construction, calc_E_mode, the Gaussian part and the 4-point *)
(* part of calc_covCOSEBI.                                                 *)
(***************************************************************************)
Init == InitLimits \/ InitEMode \/ InitGauss \/ InitFourPt

Next ==
    \/ BuildLimitsAtMode
    \/ LimitsDone
    \/ EModeStart
    \/ EModeEnter
    \/ EModeInit
    \/ EModeInt
    \/ EModeReturn
    \/ EModeAgain
    \/ CalcCovCOSEBI
    \/ GaussStart
    \/ GaussEnter
    \/ GaussInitSva
    \/ GaussIntSva
    \/ GaussInitMix
    \/ GaussIntMix
    \/ GaussShotNoise
    \/ GaussReturn
    \/ GaussAssemble
    \/ FourPtStart
    \/ FourPtEnter
    \/ FourPtPair
    \/ FourPtInnerInit
    \/ FourPtInnerInt
    \/ FourPtOuterInit
    \/ FourPtOuterInt
    \/ FourPtReturn

Spec == Init /\ [][Next]_vars


(***************************************************************************)
(* Properties of the projections.                                          *)
(***************************************************************************)
IsArray(T) == T.kind = "array"

\* T[m, n, ...] == T[n, m, ...] for all m # n, compared as floats
ModeSymmetric(T) ==
    \A m, n \in Modes : m # n =>
        \A x \in 1..Prod(T.axes) : FloatEq(T.v[m][n][x], T.v[n][m][x])

\* __covCOSEBI_split_gaussian has run all six branches
GaussCompleted == pc \in {"g_return", "g_assemble", "g_done"} /\ cfg.gauss

\* the 4-point projection has run all six branches and returned
FourPtCompleted ==
    /\ pc = "p_done"
    /\ IF buf.connected THEN cfg.nongauss ELSE cfg.ssc

\* the double-well projection of the diagonal of a Gaussian term
GaussProjection(term, c, m, n) ==
    DoubleWell(tab,
               [i \in 1..GridLen |->
                   [x \in 1..GaussFlatLength(c, cfg) |->
                       RMul(EllAt(term, cfg, i, i, x), R(tab.wn_ells[i]))]],
               ell_limits[m], m, n)

\* C1: after the Gaussian assembler has completed, in every enabled
\* combination the sva tensor and the mix tensor hold at (m, n), m <= n,
\* the projection divided by the footprint, and at (n, m) a copy of it.
C1_GaussMirrored ==
    GaussCompleted =>
        \A k \in 1..NumCombos :
            LET c == Combos[k]
                Copied(T, term) ==
                    \A m, n \in Modes : m <= n =>
                        /\ T.v[n][m] = T.v[m][n]
                        /\ \A x \in 1..Prod(T.axes) :
                              T.v[m][n][x] = RDiv(GaussProjection(term, c, m, n)[x],
                                                  R(GaussArea(c, cfg)))
            IN  Enabled(c, cfg) =>
                    /\ Copied(out.sva[k], "sva")
                    /\ HasMix(c) => Copied(out.mix[k], "mix")

\* a completed run with a combination whose sva and mix entries off the
\* diagonal are not zero
C1_Witness ==
    /\ pc = "g_done"
    /\ cfg.gauss
    /\ ~cfg.nan
    /\ \E k \in 1..NumCombos :
          /\ Enabled(Combos[k], cfg)
          /\ HasMix(Combos[k])
          /\ \E x \in 1..Prod(out.sva[k].axes) :
                /\ out.sva[k].v[1][2][x] # R(0)
                /\ out.mix[k].v[2][1][x] # R(0)

\* the double projection of the 4-point tensor: the inner single-well
\* integral with mode n for every ell sample, then the outer one with mode m
FourPtProjection(kind, c, m, n) ==
    LET flat == FourPtFlatLength(c, cfg)
        inner == [j \in 1..GridLen |->
                    SingleWell(tab,
                               [i \in 1..GridLen |-> [x \in 1..flat |->
                                   RMul(EllAt(kind, cfg, i, j, x), R(tab.wn_ells[i]))]],
                               ell_limits[n], n)]
    IN  SingleWell(tab,
                   [i \in 1..GridLen |-> [x \in 1..flat |->
                       RMul(inner[i][x], R(tab.wn_ells[i]))]],
                   ell_limits[m], m)

\* C2: with the connected term enabled, every tensor returned by
\* covCOSEBI_non_gaussian has T[m, n, ...] == T[n, m, ...] for all m # n.
C2_NonGaussSymmetric ==
    (FourPtCompleted /\ buf.connected /\ ~cfg.nan) =>
        \A k \in 1..NumCombos : IsArray(out.ret[k]) => ModeSymmetric(out.ret[k])

\* C3: every entry of the 4-point output is the projection divided by the
\* footprint once in the connected branch and not divided in the
\* super-sample branch.
C3_FootprintOnce ==
    (FourPtCompleted /\ ~cfg.nan) =>
        \A k \in 1..NumCombos :
            LET c == Combos[k]
                T == out.ret[k]
            IN  IsArray(T) =>
                    \A m, n \in Modes : \A x \in 1..Prod(T.axes) :
                        LET lo == IF m <= n THEN m ELSE n
                            hi == IF m <= n THEN n ELSE m
                            proj == FourPtProjection(FourPtKind(buf.connected), c, lo, hi)[x]
                        IN  T.v[m][n][x] = IF buf.connected
                                           THEN RDiv(proj, R(FourPtArea(c, cfg)))
                                           ELSE proj

\* C4: with gauss on and split_gauss off, each of the six tensors of the
\* list gauss has T[m, n, ...] == T[n, m, ...] for all m # n.
C4_AssembledGaussSymmetric ==
    (pc = "g_done" /\ cfg.gauss /\ ~cfg.split_gauss /\ ~cfg.nan) =>
        \A k \in 1..NumCombos : IsArray(out.gauss[k]) => ModeSymmetric(out.gauss[k])

\* C5: the shot-noise tensors of gggg and mmmm have the same value at
\* (m, n) as at (n, m).
C5_ShotNoiseSymmetric ==
    GaussCompleted =>
        \A k \in {1, NumCombos} : IsArray(out.sn[k]) => ModeSymmetric(out.sn[k])

\* an all-zero array with the axes the combination's name declares
ZeroArrayOf(T, c) ==
    /\ T.kind = "array"
    /\ T.axes = AxesByName(c, cfg)
    /\ \A m, n \in Modes : \A x \in 1..Prod(T.axes) : T.v[m][n][x] = R(0)

\* C6: for every disabled combination both assemblers return an all-zero
\* array of the combination's declared shape.
C6_DisabledAreZeroArrays ==
    /\ GaussCompleted =>
          \A k \in 1..NumCombos :
              ~Enabled(Combos[k], cfg) =>
                  /\ ZeroArrayOf(out.sva[k], Combos[k])
                  /\ ZeroArrayOf(out.mix[k], Combos[k])
                  /\ ZeroArrayOf(out.sn[k], Combos[k])
    /\ FourPtCompleted =>
          \A k \in 1..NumCombos :
              ~Enabled(Combos[k], cfg) => ZeroArrayOf(out.ret[k], Combos[k])

\* the integrand an integrate call is meant to integrate, from its slot
MeantIntegrand(c) ==
    LET tag == c.slot[1]
        k == c.slot[2]
        Scaled(At(_, _), flat) ==
            [i \in 1..GridLen |-> [x \in 1..flat |-> RMul(At(i, x), R(tab.wn_ells[i]))]]
        Sva(i, x) == EllAt("sva", cfg, i, i, x)
        Mix(i, x) == EllAt("mix", cfg, i, i, x)
        Inner(i, x) == EllAt(FourPtKind(buf.connected), cfg, i, c.slot[5], x)
        Outer(i, x) == c.arg[i][x]
        Cell(i, x) == EllAt("Cell", cfg, i, IF Blocks[k] = "mm" THEN 1
                                             ELSE IF Blocks[k] = "gm" THEN 2 ELSE 3, x)
    IN  CASE tag = "sva" -> Scaled(Sva, GaussFlatLength(Combos[k], cfg))
          [] tag = "mix" -> Scaled(Mix, GaussFlatLength(Combos[k], cfg))
          [] tag = "inner" -> Scaled(Inner, FourPtFlatLength(Combos[k], cfg))
          [] tag = "outer" -> Scaled(Outer, FourPtFlatLength(Combos[k], cfg))
          [] tag = "E" -> Scaled(Cell, EModeFlatLength(Blocks[k], cfg))

\* C7: every integrate call finds in the engine an integrand loaded by
\* init_integral since the last integrate call, and it is the integrand of
\* the term the call computes.
C7_IntegrateAfterInit ==
    call.kind # "none" =>
        /\ call.fresh
        /\ call.loaded = MeantIntegrand(call)

\* the mix integral of the last mode pair, made after the sva integral
C7_Witness ==
    /\ call.kind = "double"
    /\ call.slot[1] = "mix"
    /\ call.slot[3] = 1
    /\ call.slot[4] = NumModes
    /\ \E x \in 1..Len(call.loaded[1]) :
          EllAt("mix", cfg, 1, 1, x) # EllAt("sva", cfg, 1, 1, x)

\* every entry of a covariance tensor is finite
AllFinite(T) ==
    IsArray(T) => \A m, n \in Modes : \A x \in 1..Prod(T.axes) : IsFinite(T.v[m][n][x])

\* every entry of an E-mode array is finite
AllFiniteE(T) ==
    \A m \in Modes : \A x \in 1..Prod(T.axes) : IsFinite(T.v[m][x])

\* C10: no returned E-mode or covariance tensor holds a non-finite value:
\* a run with a non-finite integrand or integral ends in an error.
C10_NoNonFiniteReturned ==
    pc \in {"e_done", "g_done", "p_done"} =>
        /\ \A b \in DOMAIN out.E : AllFiniteE(out.E[b])
        /\ \A k \in DOMAIN out.gauss : AllFinite(out.gauss[k])
        /\ \A k \in DOMAIN out.ret : AllFinite(out.ret[k])


(***************************************************************************)
(* Construction run with the tabulated inputs: CovCOSEBI.__init__ with     *)
(* __get_wn_kernels and __get_Tn_pm.                                       *)
(***************************************************************************)
\* most rows (modes) of a tabulated kernel
MaxTabModes == 2

\* a table that was not supplied (None)
Absent == [present |-> FALSE, ell |-> <<>>, w |-> <<>>]

\* cosebi_tabs['wn_log'] / ['wn_lin'] with its multipoles, one row per mode
WnTable(style, rows) ==
    [present |-> TRUE,
     ell |-> GridOf(IF style = "log" THEN "grow" ELSE "lin", 3),
     w |-> [md \in 1..rows |-> IF style = "log" THEN <<md, 0, md>> ELSE <<0, md, 0>>]]

\* cosebi_tabs['Tn_p'] / ['Tn_m']: one row per tabulated mode
TnTable(comp, rows) ==
    [present |-> TRUE, ell |-> <<>>,
     w |-> [md \in 1..rows |-> IF comp = "p" THEN <<md, md + 1, md + 2>>
                                ELSE <<0 - md, md, 2 * md>>]]

\* obs_dict['COSEBIs']['theta_min'] and ['theta_max'] of the runs
ThetaMin == 2
ThetaMax == 6

\* cosebi_tabs['Tn_pm_theta']: grids that start below, at or above theta_min
\* and end below, at or above theta_max
ThetaGrids == {<<first, 4, last>> : first \in {ThetaMin - 1, ThetaMin, ThetaMin + 1},
                                    last \in {ThetaMax - 1, ThetaMax, ThetaMax + 1}}

\* read_in_tables['COSEBIs'] of the construction runs
TableInputs ==
    { [wn_log |-> l, wn_lin |-> n, Tn_p |-> p, Tn_m |-> m, Tn_pm_theta |-> th]
        : l \in {Absent} \cup {WnTable("log", r) : r \in 1..MaxTabModes},
          n \in {Absent} \cup {WnTable("lin", r) : r \in 1..MaxTabModes},
          p \in {Absent} \cup {TnTable("p", r) : r \in 1..MaxTabModes},
          m \in {Absent} \cup {TnTable("m", r) : r \in 1..MaxTabModes},
          th \in ThetaGrids }

NoError == [type |-> "none", msg |-> "none"]

\* raise Exception("ConfigError: ...")
ConfigError == [type |-> "Exception", msg |-> "ConfigError"]

\* None[i_mode, :]: 'NoneType' object is not subscriptable
NoneSubscript == [type |-> "TypeError", msg |-> "NoneType"]

\* Tn_m[i_mode, :] with i_mode past the last row: index is out of bounds
RowOutOfBounds == [type |-> "IndexError", msg |-> "out of bounds"]

\* __get_wn_kernels: for wn_style in ['log', 'lin']: return the first table
\* that is not None; raise when there is none
WnKernels(cosebi_tabs) ==
    IF cosebi_tabs.wn_log.present
    THEN [error |-> NoError, ells |-> cosebi_tabs.wn_log.ell, kernels |-> cosebi_tabs.wn_log.w]
    ELSE IF cosebi_tabs.wn_lin.present
    THEN [error |-> NoError, ells |-> cosebi_tabs.wn_lin.ell, kernels |-> cosebi_tabs.wn_lin.w]
    ELSE [error |-> ConfigError, ells |-> <<>>, kernels |-> <<>>]

\* UnivariateSpline(x, y, k=2, s=0, ext=0): ext=0 extrapolates
Spline(x, y) == [x |-> x, y |-> y, k |-> 2, s |-> 0, ext |-> 0]

\* mutant: the warning asks for both ends to be short
NeedsExtrapolationBoth(theta, theta_min, theta_max) ==
    theta[1] > theta_min /\ Last(theta) < theta_max

\* Tn_pm_theta[0] > theta_min or Tn_pm_theta[-1] < theta_max
NeedsExtrapolation(theta, theta_min, theta_max) ==
    theta[1] > theta_min \/ Last(theta) < theta_max

ExtrapolationWarning == [kind |-> "Warning", about |-> "extrapolate Tn_pm"]

\* __get_Tn_pm: the spline lists, the warnings printed and the error raised
TnPm(cosebi_tabs, settings) ==
    LET rows == Len(cosebi_tabs.Tn_p.w)
        theta == cosebi_tabs.Tn_pm_theta
    IN  IF ~cosebi_tabs.Tn_p.present
        THEN [Tn_p |-> <<>>, Tn_m |-> <<>>, warnings |-> <<>>, error |-> ConfigError]
        ELSE IF ~cosebi_tabs.Tn_m.present /\ rows >= 1
        THEN [Tn_p |-> <<Spline(theta, cosebi_tabs.Tn_p.w[1])>>, Tn_m |-> <<>>,
              warnings |-> <<>>, error |-> NoneSubscript]
        ELSE IF cosebi_tabs.Tn_m.present /\ Len(cosebi_tabs.Tn_m.w) < rows
        THEN [Tn_p |-> [i \in 1..(Len(cosebi_tabs.Tn_m.w) + 1) |->
                           Spline(theta, cosebi_tabs.Tn_p.w[i])],
              Tn_m |-> [i \in 1..Len(cosebi_tabs.Tn_m.w) |->
                           Spline(theta, cosebi_tabs.Tn_m.w[i])],
              warnings |-> <<>>, error |-> RowOutOfBounds]
        ELSE [Tn_p |-> [i \in 1..rows |-> Spline(theta, cosebi_tabs.Tn_p.w[i])],
              Tn_m |-> [i \in 1..rows |-> Spline(theta, cosebi_tabs.Tn_m.w[i])],
              warnings |-> IF NeedsExtrapolation(theta, settings.theta_min,
                                                 settings.theta_max)
                           THEN <<ExtrapolationWarning>> ELSE <<>>,
              error |-> NoError]

NoTables == [wn_ells |-> <<>>, wn_kernels |-> <<>>, Tn_p |-> <<>>, Tn_m |-> <<>>,
             warnings |-> <<>>, error |-> NoError]

InitTables ==
    /\ tab \in TableInputs
    /\ cfg \in {[En_modes |-> 1, theta_min |-> ThetaMin, theta_max |-> ThetaMax]}
    /\ ell_limits = <<>>
    /\ pc = "t_wn"
    /\ out = NoTables
    /\ loop = None
    /\ levin = None
    /\ buf = None
    /\ call = None

\* self.wn_ells, self.wn_kernels = self.__get_wn_kernels(...)
GetWnKernels ==
    /\ pc = "t_wn"
    /\ LET r == WnKernels(tab)
       IN  /\ out' = [out EXCEPT !.wn_ells = r.ells, !.wn_kernels = r.kernels,
                                 !.error = r.error]
           /\ pc' = IF r.error = NoError THEN "t_limits" ELSE "t_raised"
    /\ UNCHANGED <<tab, ell_limits, cfg, loop, levin, buf, call>>

\* the loop that builds self.ell_limits, and the engine
TablesLimits ==
    /\ pc = "t_limits"
    /\ ell_limits' = [md \in 1..cfg.En_modes |->
                         EllLimitsAtMode(out.wn_ells, out.wn_kernels[md])]
    /\ levin' = LevinAccuracy(ell_limits')
    /\ pc' = "t_tn"
    /\ UNCHANGED <<tab, cfg, loop, buf, out, call>>

\* self.__get_Tn_pm(read_in_tables['COSEBIs'], obs_dict['COSEBIs'])
GetTnPm ==
    /\ pc = "t_tn"
    /\ LET r == TnPm(tab, cfg)
       IN  /\ out' = [out EXCEPT !.Tn_p = r.Tn_p, !.Tn_m = r.Tn_m,
                                 !.warnings = r.warnings, !.error = r.error]
           /\ pc' = IF r.error = NoError THEN "t_done" ELSE "t_raised"
    /\ UNCHANGED <<tab, ell_limits, cfg, loop, levin, buf, call>>

NextTables == GetWnKernels \/ TablesLimits \/ GetTnPm

SpecTables == InitTables /\ [][NextTables]_vars

\* construction has finished, with or without an error
TablesFinished == pc \in {"t_done", "t_raised"}

\* C11: construction ends in an error identified as ConfigError whenever both
\* W_n tables are missing, the plus Tn table is missing or the minus Tn table
\* is missing; with both W_n tables supplied the logarithmic one is used.
C11_MissingTableIsConfigError ==
    /\ (TablesFinished /\ ( \/ ~tab.wn_log.present /\ ~tab.wn_lin.present
                            \/ ~tab.Tn_p.present
                            \/ ~tab.Tn_m.present ))
          => (pc = "t_raised" /\ out.error.msg = "ConfigError")
    /\ (pc \in {"t_limits", "t_tn", "t_done"}
            /\ tab.wn_log.present /\ tab.wn_lin.present)
          => (out.wn_ells = tab.wn_log.ell /\ out.wn_kernels = tab.wn_log.w)

\* C12: with both Tn tables supplied, one row per tabulated mode in each,
\* the warning is printed exactly when the angular grid starts above
\* theta_min or ends below theta_max, construction does not raise, and there
\* is one plus and one minus spline per tabulated mode, each extrapolating
\* (ext = 0).
C12_WarningAndSplines ==
    (TablesFinished /\ tab.Tn_p.present /\ tab.Tn_m.present
        /\ Len(tab.Tn_p.w) = Len(tab.Tn_m.w)
        /\ (tab.wn_log.present \/ tab.wn_lin.present))
    => /\ pc = "t_done"
       /\ (out.warnings # <<>>) <=> ( \/ tab.Tn_pm_theta[1] > cfg.theta_min
                                      \/ Last(tab.Tn_pm_theta) < cfg.theta_max )
       /\ Len(out.warnings) <= 1
       /\ Len(out.Tn_p) = Len(tab.Tn_p.w)
       /\ Len(out.Tn_m) = Len(tab.Tn_m.w)
       /\ \A i \in 1..Len(tab.Tn_p.w) :
             /\ out.Tn_p[i].y = tab.Tn_p.w[i]
             /\ out.Tn_m[i].y = tab.Tn_m.w[i]
             /\ out.Tn_p[i].x = tab.Tn_pm_theta
             /\ out.Tn_m[i].x = tab.Tn_pm_theta
             /\ out.Tn_p[i].ext = 0
             /\ out.Tn_m[i].ext = 0

\* a finished construction that warned because only the upper end is short,
\* with the most tabulated modes
C12_Witness ==
    /\ pc = "t_done"
    /\ out.warnings # <<>>
    /\ tab.Tn_pm_theta[1] <= cfg.theta_min
    /\ Last(tab.Tn_pm_theta) < cfg.theta_max
    /\ Len(tab.Tn_p.w) = MaxTabModes
    /\ Len(out.Tn_m) = MaxTabModes


(***************************************************************************)
(* HaloModel (cov_halo_model.py): the operations that take a model option. *)
(* cfg is hm_prec, buf holds self.mass_func and self.norm_bias, out is the  *)
(* outcome of the last operation and call names that operation.            *)
(***************************************************************************)
\* largest redshift asked of calc_mass_func
MaxZet == 1
\* largest hm_prec['M_bins'] of the runs
MaxMBins == 3
\* hm_prec['log10M_min'] values and hm_prec['log10M_max'] of the runs
MinLog10M == 9
MaxLog10M == 15

\* norm_Mmin = 2. and norm_Mbins = 500. of bias()
NormMmin == 2
NormMbins == 500

\* Mmin = 2.0 of the halo model integrals over matter
ExtendMmin == 2

\* the fitting functions hmf.mass_function.fitting_functions has
HmfModels == {"Tinker08", "PS"}
HmfOptions == HmfModels \cup {"NoSuchFit"}
BiasOptions == {"Tinker10", "Mo96"}
McOptions == {"duffy08", "flat", "bullock01"}
DampingOptions == {"damped", "none", "smooth"}

\* the smallest integer >= x.n / x.d, for x > 0
Ceil(x) == (x.n + x.d - 1) \div x.d

\* len(mass_func.m): the masses from Mmin up to Mmax in steps of dlog10m
MassBins(mf) == Ceil(RDiv(R(mf.Mmax - mf.Mmin), mf.dlog10m))

\* hmf.MassFunction(Mmin=..., Mmax=..., dlog10m=mstep, hmf_model=..., z=zet)
MassFunction(hm_prec, zet, model) ==
    [Mmin |-> hm_prec.log10M_min, Mmax |-> hm_prec.log10M_max,
     dlog10m |-> Rat(2 * (hm_prec.log10M_max - hm_prec.log10M_min),
                     2 * hm_prec.M_bins - 1),
     hmf_model |-> model, z |-> zet]

HaloOk(v) == [kind |-> "value", v |-> v, error |-> NoError]
HaloRaised(e) == [kind |-> "raised", v |-> <<>>, error |-> e]

\* raise Exception("For now the only valid bias model is 'Tinker10', ...")
BiasModelError == [type |-> "Exception", msg |-> "For now the only valid bias model is"]

\* raise Exception("KeyError: The mode in [halomodel (or) trispec evaluation] ...")
DampingModeError == [type |-> "Exception", msg |-> "KeyError"]

\* calc_mass_func: the outcome and hm_prec afterwards
CalcMassFunc(zet, hm_prec, model) ==
    IF model \notin HmfModels
    THEN [res |-> HaloRaised(ConfigError), hm_prec |-> hm_prec]
    ELSE LET mass_func == MassFunction(hm_prec, zet, model)
         IN  [res |-> HaloOk(mass_func),
              hm_prec |-> [hm_prec EXCEPT !.M_bins = MassBins(mass_func)]]

\* np.trapz(fsigma / nu_new * fittfunc(nu_new), nu_new) on the extended range
NormBias(mf) == R(mf.Mmax - NormMmin + mf.z)

\* bias: the outcome, self.mass_func and self.norm_bias afterwards
Bias(model, hm_prec, mass_func, norm_bias) ==
    IF model = "Tinker10"
    THEN LET step_save == mass_func.dlog10m
             extended == [mass_func EXCEPT !.Mmin = NormMmin,
                             !.dlog10m = Rat(mass_func.Mmax - NormMmin, NormMbins)]
             norm == IF norm_bias = R(0 - 1) THEN NormBias(extended) ELSE norm_bias
         IN  [res |-> HaloOk(<<"tinker / norm_bias", norm>>),
              mass_func |-> [extended EXCEPT !.Mmin = hm_prec.log10M_min,
                                             !.dlog10m = step_save],
              norm_bias |-> norm]
    ELSE [res |-> HaloRaised(BiasModelError), mass_func |-> mass_func,
          norm_bias |-> norm_bias]

\* __concentration
Concentration(Mc_relation) ==
    IF Mc_relation = "duffy08" THEN HaloOk(<<"duffy08">>)
    ELSE IF Mc_relation = "flat" THEN HaloOk(<<1>>)
    ELSE HaloRaised(ConfigError)

\* small_k_damping
SmallKDamping(mode) ==
    IF mode = "damped" THEN HaloOk(<<"erf(krange / scale)">>)
    ELSE IF mode = "none" THEN HaloOk(<<"ones_like(krange)">>)
    ELSE HaloRaised(DampingModeError)

\* hm_prec of the runs
HmPrecs == { [log10M_min |-> lo, log10M_max |-> MaxLog10M, M_bins |-> b]
               : lo \in {MinLog10M, MinLog10M + 1}, b \in 2..MaxMBins }

\* a constructed HaloModel: the mass function of __init__, and norm_bias still
\* -1 when the effective bias came from a table
InitHalo ==
    /\ cfg \in HmPrecs
    /\ \E zet \in 0..MaxZet, model \in HmfModels, normed \in BOOLEAN :
          LET mf == MassFunction(cfg, zet, model)
          IN  buf = [mass_func |-> mf,
                     norm_bias |-> IF normed THEN NormBias([mf EXCEPT !.Mmin = NormMmin])
                                   ELSE R(0 - 1)]
    /\ pc = "h_ready"
    /\ out = HaloOk(<<>>)
    /\ call = None
    /\ tab = None
    /\ ell_limits = <<>>
    /\ loop = None
    /\ levin = None

\* the state an operation found, kept with the call
HaloCall(op, option) == [kind |-> op, option |-> option, hm_prec |-> cfg, self |-> buf]

HaloCalcMassFunc ==
    /\ pc = "h_ready"
    /\ \E zet \in 0..MaxZet, model \in HmfOptions :
          LET r == CalcMassFunc(zet, cfg, model)
          IN  /\ out' = r.res
              /\ cfg' = r.hm_prec
              /\ call' = HaloCall("calc_mass_func", model)
    /\ UNCHANGED <<pc, tab, ell_limits, loop, levin, buf>>

HaloBias ==
    /\ pc = "h_ready"
    /\ \E model \in BiasOptions :
          LET r == Bias(model, cfg, buf.mass_func, buf.norm_bias)
          IN  /\ out' = r.res
              /\ buf' = [mass_func |-> r.mass_func, norm_bias |-> r.norm_bias]
              /\ call' = HaloCall("bias", model)
    /\ UNCHANGED <<pc, tab, ell_limits, cfg, loop, levin>>

\* uk up to its call of __concentration
HaloConcentration ==
    /\ pc = "h_ready"
    /\ \E Mc_relation \in McOptions :
          /\ out' = Concentration(Mc_relation)
          /\ call' = HaloCall("concentration", Mc_relation)
    /\ UNCHANGED <<pc, tab, ell_limits, cfg, loop, levin, buf>>

HaloSmallKDamping ==
    /\ pc = "h_ready"
    /\ \E mode \in DampingOptions :
          /\ out' = SmallKDamping(mode)
          /\ call' = HaloCall("small_k_damping", mode)
    /\ UNCHANGED <<pc, tab, ell_limits, cfg, loop, levin, buf>>

\* the state a halo model integral works on: hm_prec, self.mass_func,
\* self.norm_bias, and the outcome so far
HaloState(hm_prec, self) ==
    [hm_prec |-> hm_prec, mass_func |-> self.mass_func, norm_bias |-> self.norm_bias,
     res |-> HaloOk(<<>>)]

\* a call self.bias(bias_dict, hm_prec) inside an integral; an exception
\* ends the integral
BiasStep(model, st) ==
    IF st.res.kind = "raised" THEN st
    ELSE LET r == Bias(model, st.hm_prec, st.mass_func, st.norm_bias)
         IN  [st EXCEPT !.mass_func = r.mass_func, !.norm_bias = r.norm_bias,
                        !.res = r.res]

\* mutant: the mass function is put back with the step of the extension
ExtendedStepKeepStep(model, st) ==
    IF st.res.kind = "raised" THEN st
    ELSE LET M_min_save == st.hm_prec.log10M_min
             step_save == st.mass_func.dlog10m
             step == Rat(st.mass_func.Mmax - ExtendMmin, st.hm_prec.M_bins)
             extended ==
                 [st EXCEPT !.hm_prec = [@ EXCEPT !.log10M_min = ExtendMmin,
                                                  !.M_bins = MassBins(st.mass_func)],
                            !.mass_func = [@ EXCEPT !.Mmin = ExtendMmin,
                                                    !.dlog10m = step]]
             biased == BiasStep(model, extended)
             restored == [biased.mass_func EXCEPT !.Mmin = M_min_save,
                                                  !.dlog10m = step]
         IN  IF biased.res.kind = "raised" THEN biased
             ELSE [biased EXCEPT !.mass_func = restored,
                                 !.hm_prec = [@ EXCEPT !.log10M_min = M_min_save,
                                                       !.M_bins = MassBins(restored)]]

\* the block of the integrals over matter: the mass range is extended down
\* to Mmin = 2.0, bias() is called, and the range is put back
ExtendedStep(model, st) ==
    IF st.res.kind = "raised" THEN st
    ELSE LET M_min_save == st.hm_prec.log10M_min
             step_save == st.mass_func.dlog10m
             step == Rat(st.mass_func.Mmax - ExtendMmin, st.hm_prec.M_bins)
             extended ==
                 [st EXCEPT !.hm_prec = [@ EXCEPT !.log10M_min = ExtendMmin,
                                                  !.M_bins = MassBins(st.mass_func)],
                            !.mass_func = [@ EXCEPT !.Mmin = ExtendMmin,
                                                    !.dlog10m = step]]
             biased == BiasStep(model, extended)
             restored == [biased.mass_func EXCEPT !.Mmin = M_min_save,
                                                  !.dlog10m = step_save]
         IN  IF biased.res.kind = "raised" THEN biased
             ELSE [biased EXCEPT !.mass_func = restored,
                                 !.hm_prec = [@ EXCEPT !.log10M_min = M_min_save,
                                                       !.M_bins = MassBins(restored)]]

\* the factors of the integrand a halo model integral ends with: the
\* profiles hurlyX and hurlyY, whether `correct` is subtracted, and whether
\* the bias carries the factor bias_dict['bias_2h']
Weights(hurlyX, hurlyY, correct, bias_2h) ==
    [hurlyX |-> hurlyX, hurlyY |-> hurlyY, correct |-> correct, bias_2h |-> bias_2h]

\* the assignments to hurlyX, hurlyY, correct and bias of
\* halo_model_integral_I_alpha_xy, in the order of the code
WeightsXY(type_x, type_y) ==
    LET w0 == Weights("one", "one", FALSE, FALSE)
        w1 == IF type_x = "g" THEN [w0 EXCEPT !.hurlyX = "cen+sat", !.bias_2h = TRUE]
              ELSE IF type_x = "m" THEN [w0 EXCEPT !.hurlyX = "m"]
              ELSE w0
        w2 == IF type_y = "g" THEN [w1 EXCEPT !.hurlyY = "cen+sat", !.bias_2h = TRUE]
              ELSE IF type_y = "m" THEN [w1 EXCEPT !.hurlyY = "m", !.bias_2h = FALSE]
              ELSE w1
        w3 == IF type_x = "g" /\ type_y = "g"
              THEN [w2 EXCEPT !.correct = TRUE, !.bias_2h = FALSE]
              ELSE w2
    IN  IF type_x = "m" /\ type_y = "m" THEN Weights("m", "m", FALSE, FALSE) ELSE w3

\* the value an integral returns unless a bias() call raised
Returned(st, v) == IF st.res.kind = "raised" THEN st ELSE [st EXCEPT !.res = HaloOk(v)]

\* halo_model_integral_I_alpha_x
IntegralX(alpha, type_x, model, st) ==
    IF alpha = 0 THEN Returned(st, <<0>>)
    ELSE LET g == IF type_x = "g" THEN BiasStep(model, st) ELSE st
             m == IF type_x = "m" THEN ExtendedStep(model, g) ELSE g
         IN  Returned(m, Weights(IF type_x = "g" THEN "cen+sat" ELSE "m", "one",
                                 FALSE, type_x = "g"))

\* halo_model_integral_I_alpha_xy
IntegralXY(alpha, type_x, type_y, model, st) ==
    IF alpha = 0 THEN Returned(st, <<0>>)
    ELSE LET x == IF type_x = "g" THEN BiasStep(model, st) ELSE st
             y == BiasStep(model, x)
             gg == IF type_x = "g" /\ type_y = "g" THEN BiasStep(model, y) ELSE y
             mm == IF type_x = "m" /\ type_y = "m" THEN ExtendedStep(model, gg) ELSE gg
         IN  Returned(mm, WeightsXY(type_x, type_y))

\* halo_model_integral_I_alpha_mmm
IntegralMMM(alpha, model, st) ==
    IF alpha = 0 THEN Returned(st, <<0>>)
    ELSE Returned(ExtendedStep(model, st), Weights("m", "m^2", FALSE, FALSE))

TracerTypes == {"g", "m"}
Alphas == {0, 1}

\* the effect of an integral on hm_prec and on the model
HaloIntegral(op, option, st) ==
    /\ out' = st.res
    /\ cfg' = st.hm_prec
    /\ buf' = [mass_func |-> st.mass_func, norm_bias |-> st.norm_bias]
    /\ call' = HaloCall(op, option)
    /\ UNCHANGED <<pc, tab, ell_limits, loop, levin>>

HaloIntegralX ==
    /\ pc = "h_ready"
    /\ \E alpha \in Alphas, type_x \in TracerTypes, model \in BiasOptions :
          HaloIntegral("I_alpha_x",
                       [alpha |-> alpha, type_x |-> type_x, type_y |-> "none"],
                       IntegralX(alpha, type_x, model, HaloState(cfg, buf)))

HaloIntegralXY ==
    /\ pc = "h_ready"
    /\ \E alpha \in Alphas, type_x \in TracerTypes, type_y \in TracerTypes,
          model \in BiasOptions :
          HaloIntegral("I_alpha_xy",
                       [alpha |-> alpha, type_x |-> type_x, type_y |-> type_y],
                       IntegralXY(alpha, type_x, type_y, model, HaloState(cfg, buf)))

HaloIntegralMMM ==
    /\ pc = "h_ready"
    /\ \E alpha \in Alphas, model \in BiasOptions :
          HaloIntegral("I_alpha_mmm",
                       [alpha |-> alpha, type_x |-> "m", type_y |-> "m"],
                       IntegralMMM(alpha, model, HaloState(cfg, buf)))

NextHalo ==
    \/ HaloCalcMassFunc
    \/ HaloBias
    \/ HaloConcentration
    \/ HaloSmallKDamping
    \/ HaloIntegralX
    \/ HaloIntegralXY
    \/ HaloIntegralMMM

SpecHalo == InitHalo /\ [][NextHalo]_vars

\* the last operation was asked for an option it does not support
UnsupportedOption ==
    \/ call.kind = "calc_mass_func" /\ call.option \notin HmfModels
    \/ call.kind = "bias" /\ call.option # "Tinker10"
    \/ call.kind = "concentration" /\ call.option \notin {"duffy08", "flat"}
    \/ call.kind = "small_k_damping" /\ call.option \notin {"damped", "none"}

\* C16: an operation asked for an unsupported option raises an error
\* identified as ConfigError and leaves the precision settings, the mass
\* function and the bias normalisation as it found them.
C16_UnsupportedIsConfigError ==
    UnsupportedOption =>
        /\ out.kind = "raised"
        /\ out.error.msg = "ConfigError"
        /\ cfg = call.hm_prec
        /\ buf = call.self


(***************************************************************************)
(* Properties of calc_E_mode.                                              *)
(***************************************************************************)
\* the tracer type of a block is enabled in the observable configuration
TracerEnabled(b, d) ==
    CASE b = "mm" -> d.mm
      [] b = "gm" -> d.gm
      [] b = "gg" -> d.gg

\* C13: calc_E_mode integrates for a tracer type only when that type is
\* enabled, and returns for every disabled type the all-zero array of shape
\* (modes, sample bins, tomo bins, tomo bins).
C13_EModeOnlyEnabled ==
    /\ (pc \in {"e_init", "e_int"}) => TracerEnabled(Blocks[loop.combo], cfg)
    /\ (pc = "e_done") =>
          \A b \in 1..NumBlocks :
              ~TracerEnabled(Blocks[b], cfg) =>
                  out.E[b] = EModeZeros(EModeAxes(Blocks[b], cfg))

\* C14: a call of calc_E_mode on an object whose E modes were computed
\* before returns the same arrays, entry by entry the same value, whatever
\* integrand and flags the engine held when the call started - left by
\* calc_E_mode, by the Gaussian part or by a 4-point part - and the inputs
\* are what they were before the call; every integral of the call is taken
\* of the spectrum of its own block, loaded with the flags (True, True).
C14_EModeIdempotent ==
    /\ (pc = "e_done" /\ out.prev # <<>>) =>
          LET before == Last(out.prev)
          IN  /\ before.E # <<>> => out.E = before.E
              /\ cfg = before.cfg
              /\ tab = before.tab
              /\ ell_limits = before.ell_limits
    /\ (pc = "e_int") =>
          levin = [f |-> [i \in 1..GridLen |->
                            [x \in 1..EModeFlatLength(Blocks[loop.combo], cfg) |->
                                RMul(EllAt("Cell", cfg, i,
                                           IF Blocks[loop.combo] = "mm" THEN 1
                                           ELSE IF Blocks[loop.combo] = "gm" THEN 2 ELSE 3, x),
                                     R(tab.wn_ells[i]))]],
                   fresh |-> TRUE, logx |-> TRUE, logy |-> TRUE]

\* two calls of calc_E_mode have returned the same arrays, not all zero; the
\* first of them started with the engine as the outer stage of the mmgm
\* branch of a 4-point part left it, loaded with the flags (True, False)
C14_Witness ==
    /\ pc = "e_done"
    /\ Len(out.prev) >= 2
    /\ out.prev[1].after = "p_raised"
    /\ out.prev[1].levin.f # <<>>
    /\ ~out.prev[1].levin.logy
    /\ out.prev[2].E = out.E
    /\ \E b \in 1..NumBlocks : \E md \in Modes : \E x \in 1..Prod(out.E[b].axes) :
          IsFinite(out.E[b].v[md][x]) /\ out.E[b].v[md][x] # R(0)


(***************************************************************************)
(* Properties of calc_covCOSEBI and of the loops of the projections.       *)
(***************************************************************************)
\* C15: the lists gauss, nongauss and ssc returned by calc_covCOSEBI have
\* exactly six entries each, whatever the switches gauss, split_gauss,
\* nongauss and ssc are.
C15_SixEntriesEach ==
    /\ (pc = "g_done") => Len(out.gauss) = NumCombos
    /\ (pc = "p_done") => Len(out.ret) = NumCombos

\* C17: in the 4-point projection of a pair (m, n) the inner stage holds the
\* index of the first (ell) axis fixed and integrates over the second (ell')
\* axis with the kernel and limits of mode n, one buffered value per ell
\* sample; the outer stage integrates that buffer with mode m.
C17_InnerOverSecondAxis ==
    /\ (pc = "p_outer_init" /\ ~cfg.nan) =>
          \A i \in 1..GridLen :
              buf.inner_integral[i] =
                  SingleWell(tab,
                             [j \in 1..GridLen |-> [x \in 1..buf.flat_length |->
                                 RMul(EllAt(FourPtKind(buf.connected), cfg, i, j, x),
                                      R(tab.wn_ells[j]))]],
                             ell_limits[loop.n], loop.n)
    /\ (pc = "p_outer_int") => levin.f = OuterIntegrand(tab, buf.inner_integral)

\* C18: within one run over one enabled combination the inner single-well
\* integral of a pair (mode n, ell sample) is evaluated at most once,
\* however many outer modes m use it.
C18_InnerAtMostOnce ==
    LET log == CallLog(call)
    IN  \A i, j \in 1..Len(log) :
            (/\ log[i][1] = "inner"
             /\ log[j][1] = "inner"
             /\ log[i][2] = log[j][2]
             /\ log[i][4] = log[j][4]
             /\ log[i][5] = log[j][5]) => i = j

\* the number of mode pairs with m <= n, and the position of a pair in the
\* order of the two loops
TriangleSize == (NumModes * (NumModes + 1)) \div 2
PairIndex(m, n) == (m - 1) * NumModes - ((m - 1) * (m - 2)) \div 2 + (n - m + 1)

\* the Gaussian branch of combination k has run to its end
GaussBranchDone(k) ==
    /\ cfg.gauss
    /\ Enabled(Combos[k], cfg)
    /\ \/ pc \in {"g_return", "g_assemble", "g_done"}
       \/ /\ pc \in {"g_enter", "g_pair", "g_int_sva", "g_init_mix", "g_int_mix", "g_sn"}
          /\ loop.combo > k

\* C19: for each enabled combination the Gaussian assembler calls the
\* double-well integrator exactly once per term (sva, and mix where the
\* combination has one) for each pair m <= n and never for m > n, that is
\* N(N+1)/2 times per term, and the progress counter is N(N+1)/2 at the
\* last pair.
C19_UpperTriangleOnce ==
    LET log == CallLog(call)
        Calls(term, k) == {i \in 1..Len(log) : log[i][1] = term /\ log[i][2] = k}
    IN  /\ \A i \in 1..Len(log) : log[i][1] \in {"sva", "mix"} => log[i][3] <= log[i][4]
        /\ \A i, j \in 1..Len(log) : log[i] = log[j] => i = j
        /\ \A k \in 1..NumCombos :
              GaussBranchDone(k) =>
                  /\ \A m, n \in Modes :
                        m <= n => \E i \in Calls("sva", k) : log[i] = <<"sva", k, m, n, 0>>
                  /\ Cardinality(Calls("sva", k)) = TriangleSize
                  /\ Cardinality(Calls("mix", k)) =
                        IF HasMix(Combos[k]) THEN TriangleSize ELSE 0
        /\ (pc \in {"g_pair", "g_int_sva", "g_init_mix", "g_int_mix", "g_sn"}) =>
              /\ loop.tcomb = PairIndex(loop.m, loop.n)
              /\ (loop.m = NumModes /\ loop.n = NumModes) <=> (loop.tcomb = TriangleSize)
        /\ (pc = "g_return" /\ cfg.gauss /\ Enabled(Combos[NumCombos], cfg)) =>
              loop.shown = TriangleSize

\* the last branch has run and every term of the first and the last
\* combination was integrated
C19_Witness ==
    /\ pc = "g_return"
    /\ GaussBranchDone(1)
    /\ GaussBranchDone(NumCombos)
    /\ loop.shown = TriangleSize
    /\ Cardinality({i \in 1..Len(CallLog(call)) :
                        CallLog(call)[i][1] \in {"sva", "mix"}}) >= 3 * TriangleSize

\* the footprint of one tracer pair, and the two tracer pairs of a
\* combination
TracerArea(t, d) ==
    CASE t = "gg" -> d.area_clust
      [] t = "gm" -> d.area_ggl
      [] t = "mm" -> d.area_lens
TracerPairs(c) == <<SubSeq(c, 1, 2), SubSeq(c, 3, 4)>>

\* C20: the footprint dividing the Gaussian sva and mix terms is the area
\* of the tracer pair for gggg, gmgm and mmmm and the larger of the areas of
\* the two tracer pairs for gggm, ggmm and mmgm; the same divisor is applied
\* to sva and to mix, and to the entry (m, n) and its mirror (n, m).
C20_GaussFootprint ==
    GaussCompleted =>
        \A k \in 1..NumCombos :
            LET c == Combos[k]
                a == TracerArea(TracerPairs(c)[1], cfg)
                b == TracerArea(TracerPairs(c)[2], cfg)
                footprint == IF a = b THEN a ELSE IF a > b THEN a ELSE b
                Divided(T, term) ==
                    \A m, n \in Modes : \A x \in 1..Prod(T.axes) :
                        LET lo == IF m <= n THEN m ELSE n
                            hi == IF m <= n THEN n ELSE m
                        IN  RMul(T.v[m][n][x], R(footprint)) =
                                GaussProjection(term, c, lo, hi)[x]
            IN  Enabled(c, cfg) =>
                    /\ Divided(out.sva[k], "sva")
                    /\ HasMix(c) => Divided(out.mix[k], "mix")

\* a completed run of a mixed combination whose two tracer pairs have
\* different areas, the smaller one first, and whose entries are not zero
C20_Witness ==
    /\ pc = "g_done"
    /\ cfg.gauss
    /\ ~cfg.nan
    /\ \E k \in {2, 3, 5} :
          /\ Enabled(Combos[k], cfg)
          /\ TracerArea(TracerPairs(Combos[k])[1], cfg)
                < TracerArea(TracerPairs(Combos[k])[2], cfg)
          /\ \E x \in 1..Prod(out.sva[k].axes) : out.sva[k].v[2][1][x] # R(0)

(***************************************************************************)
(* Properties of the shot noise, of the limits and of the shapes.          *)
(***************************************************************************)
\* C21: a shot-noise entry with tomographic indices (i, j, k, l) is zero
\* unless (i, j) = (k, l) or, for gggg and mmmm only, (i, j) = (l, k); the
\* shot-noise terms of gggm, ggmm and mmgm are identically zero; at fixed
\* modes and tomographic indices the value is the same for every pair of
\* sample bins.
C21_ShotNoiseMasks ==
    GaussCompleted =>
        \A q \in 1..NumCombos :
            LET c == Combos[q]
                T == out.sn[q]
                Tomo(x) == [a \in 3..6 |-> AxisIndex(x, T.axes, a)]
                Selected(x) ==
                    LET i == Tomo(x)[3]
                        j == Tomo(x)[4]
                        k == Tomo(x)[5]
                        l == Tomo(x)[6]
                    IN  \/ i = k /\ j = l
                        \/ c \in {"gggg", "mmmm"} /\ i = l /\ j = k
            IN  IF c \in {"gggm", "ggmm", "mmgm"}
                THEN T = Scalar0
                ELSE IsArray(T) =>
                        \A m, n \in Modes : \A x \in 1..Prod(T.axes) :
                            /\ ~Selected(x) => T.v[m][n][x] = R(0)
                            /\ \A y \in 1..Prod(T.axes) :
                                  Tomo(x) = Tomo(y) => T.v[m][n][x] = T.v[m][n][y]

\* a completed run with two bins per tracer: a gmgm entry outside its mask
\* is zero where the mmmm entry with the same (permuted) indices is not
C21_Witness ==
    /\ pc = "g_done"
    /\ cfg.gauss
    /\ cfg.n_tomo_clust = 2
    /\ cfg.n_tomo_lens = 2
    /\ IsArray(out.sn[4])
    /\ IsArray(out.sn[6])
    /\ \E x \in 1..Prod(out.sn[6].axes) :
          /\ AxisIndex(x, out.sn[6].axes, 3) # AxisIndex(x, out.sn[6].axes, 4)
          /\ AxisIndex(x, out.sn[6].axes, 3) = AxisIndex(x, out.sn[6].axes, 6)
          /\ AxisIndex(x, out.sn[6].axes, 4) = AxisIndex(x, out.sn[6].axes, 5)
          /\ out.sn[6].v[1][1][x] # R(0)
          /\ out.sn[4].v[1][1][x] = R(0)

\* C22: for every mode each interior boundary is the grid position of an
\* interior local minimum of the kernel (strictly below both neighbours),
\* the interior boundaries ascend, and between two consecutive interior
\* boundaries exactly 19 minima are skipped: the boundaries are every 20th
\* minimum.
C22_EveryTwentiethMinimum ==
    \A md \in 1..Len(ell_limits) :
        LET kernel == tab.wn_kernels[md]
            ells == tab.wn_ells
            limits == ell_limits[md]
            StrictMinimum(p) == /\ p > 1
                                /\ p < Len(kernel)
                                /\ kernel[p] < kernel[p - 1]
                                /\ kernel[p] < kernel[p + 1]
            Minima == {p \in 1..Len(kernel) : StrictMinimum(p)}
            At(j) == CHOOSE p \in 1..Len(ells) : ells[p] = limits[j]
            interior == 2..(Len(limits) - 1)
        IN  /\ \A j \in interior : At(j) \in Minima
            /\ \A j \in interior : j + 1 \in interior =>
                  /\ At(j) < At(j + 1)
                  /\ Cardinality({p \in Minima : At(j) < p /\ p < At(j + 1)})
                        = MinimaStride - 1
            /\ Cardinality(interior) =
                  (Cardinality(Minima) + MinimaStride - 1) \div MinimaStride

\* a finished mode with more than 20 minima and two interior boundaries
C22_Witness ==
    /\ pc = "built"
    /\ \E md \in 1..Len(ell_limits) :
          /\ Len(ell_limits[md]) = 4
          /\ ell_limits[md][2] < ell_limits[md][3]
          /\ NumMinima(md) = MinimaStride + 1

\* C23: the relative accuracy handed to the engine at construction is
\* En_acc divided by the square root of the well count, the number of
\* sub-intervals (boundaries minus one) of the modes integrated.
C23_AccuracyByWellCount ==
    (pc = "built") =>
        \A md \in 1..Len(ell_limits) : levin.radicand = Len(ell_limits[md]) - 1

\* the flat position of the entry with the two tomographic-bin pairs
\* exchanged: (s1, s2, i, j, k, l) -> (s1, s2, k, l, i, j)
SwapPairs(x, axes) ==
    LET at == [a \in 1..6 |-> AxisIndex(x, axes, a) - 1]
        to == <<at[1], at[2], at[5], at[6], at[3], at[4]>>
    IN  1 + to[6] + axes[6] * (to[5] + axes[5] * (to[4] + axes[4] * (to[3]
            + axes[3] * (to[2] + axes[2] * to[1]))))

\* the supplied tensor of a combination is symmetric under transposing
\* (ell, ell') together with exchanging its two tomographic-bin pairs
InputSymmetric(kind, axes) ==
    /\ axes[3] = axes[5]
    /\ axes[4] = axes[6]
    /\ \A l1, l2 \in 1..GridLen : \A x \in 1..Prod(axes) :
          EllAt(kind, cfg, l1, l2, x) = EllAt(kind, cfg, l2, l1, SwapPairs(x, axes))

\* C24: in the super-sample branch, for gggg, gmgm and mmmm, a supplied
\* tensor with that symmetry is projected to a tensor with
\* T[m, n, s1, s2, i, j, k, l] == T[n, m, s1, s2, k, l, i, j].
C24_SscPairSymmetric ==
    (FourPtCompleted /\ ~buf.connected /\ ~cfg.nan) =>
        \A q \in {1, 4, 6} :
            LET T == out.ret[q]
            IN  (IsArray(T) /\ InputSymmetric("ssc", T.axes)) =>
                    \A m, n \in Modes : \A x \in 1..Prod(T.axes) :
                        T.v[m][n][x] = T.v[n][m][SwapPairs(x, T.axes)]

\* C25: for every enabled combination and all numbers of clustering and
\* lensing bins the tensor of the 4-point projection has the trailing axes
\* (sample, sample, t1, t2, t3, t4) with the clustering count where the
\* name of the combination has g and the lensing count where it has m, the
\* shape of the Gaussian sva tensor of the combination.
C25_FourPtShapes ==
    (pc \in {"p_pair", "p_inner_init", "p_inner_int", "p_outer_init", "p_outer_int",
             "p_enter", "p_return", "p_done"}) =>
        \A k \in 1..NumCombos :
            LET T == IF pc = "p_done" THEN out.ret[k] ELSE out.four[k]
            IN  IsArray(T) =>
                    /\ T.axes = AxesByName(Combos[k], cfg)
                    /\ T.axes = GaussAxes(Combos[k], cfg)

\* C26: for every enabled combination of the Gaussian assembler and of the
\* 4-point projection, and all sample_dim, n_tomo_clust, n_tomo_lens >= 1,
\* flat_length equals the product of the six trailing axes of the tensor
\* allocated for the combination, so the reshape into the slot (m, n) never
\* fails.
C26_FlatLengthIsAxesProduct ==
    (pc \in {"g_pair", "g_int_sva", "g_init_mix", "g_int_mix", "g_sn",
             "p_pair", "p_inner_init", "p_inner_int", "p_outer_init", "p_outer_int"}) =>
        /\ Len(buf.original_shape) = 6
        /\ buf.flat_length = Prod(buf.original_shape)

\* C27: covCOSEBI_gaussian leaves cov_dict['split_gauss'] at the value it
\* had before the call on every exit path, also when the ELL-space
\* collaborator raises; it is True only during the covELL_gaussian call.
C27_SplitGaussRestored ==
    (pc # "g_start" /\ buf.save_entry # <<>>) =>
        cfg.split_gauss = buf.save_entry[1]

(***************************************************************************)
(* Properties of the halo model integrals.                                 *)
(***************************************************************************)
\* the last operation was an integral over matter that returned
MatterIntegralReturned ==
    /\ call.kind \in {"I_alpha_x", "I_alpha_xy", "I_alpha_mmm"}
    /\ call.option.type_x = "m"
    /\ call.option.type_y \in {"m", "none"}
    /\ out.kind = "value"

\* C28: after an integral over matter (I_alpha_x with 'm', I_alpha_xy with
\* ('m', 'm'), I_alpha_mmm) has returned, hm_prec['log10M_min'],
\* hm_prec['M_bins'], the lower mass limit and the mass step of the mass
\* function have the values they had before the call; with alpha = 0 the
\* operation returns 0 and modifies nothing.
C28_MassRangeRestored ==
    MatterIntegralReturned =>
        /\ cfg.log10M_min = call.hm_prec.log10M_min
        /\ cfg.M_bins = call.hm_prec.M_bins
        /\ buf.mass_func.Mmin = call.self.mass_func.Mmin
        /\ buf.mass_func.dlog10m = call.self.mass_func.dlog10m
        /\ call.option.alpha = 0 =>
              /\ out.v = <<0>>
              /\ cfg = call.hm_prec
              /\ buf = call.self

\* an integral over matter with alpha # 0 has returned, and the nested
\* bias() call computed the normalisation on its own extended range
C28_Witness ==
    /\ MatterIntegralReturned
    /\ call.kind = "I_alpha_x"
    /\ call.option.alpha = 1
    /\ call.self.norm_bias = R(0 - 1)
    /\ buf.norm_bias # R(0 - 1)
    /\ buf.mass_func.Mmin > ExtendMmin

\* C29: halo_model_integral_I_alpha_xy treats its two tracer types
\* symmetrically: for alpha # 0 the bias weighting (with or without the
\* factor bias_2h) of (type_x, type_y) is that of (type_y, type_x), and the
\* result of one order is the result of the other with the axes exchanged.
C29_TypesSymmetric ==
    (call.kind = "I_alpha_xy" /\ call.option.alpha # 0 /\ out.kind = "value") =>
        LET other == WeightsXY(call.option.type_y, call.option.type_x)
        IN  /\ out.v.bias_2h = other.bias_2h
            /\ out.v.correct = other.correct
            /\ out.v.hurlyX = other.hurlyY
            /\ out.v.hurlyY = other.hurlyX

(***************************************************************************)
(* Properties of the engine calls of the 4-point projection.               *)
(***************************************************************************)
\* C30: every init_integral call of the 4-point projection passes the same
\* pair of interpolation flags (True, True), in the inner and in the outer
\* stage of all six combinations.
C30_SameFlags ==
    (pc \in {"p_inner_int", "p_outer_int"}) => (levin.logx /\ levin.logy)

=============================================================================
